---- MODULE Spec2Model ----
(***************************************************************************)
(* A model of the LG Therma V R290 heat-pump control programs:             *)
(*   - the retry wrappers around one Modbus request                        *)
(*     (lg_r290_modbus.modbus_operation_with_retry,                        *)
(*      keep_alive.modbus_read_with_retry),                                *)
(*   - the monitor daemon's polling loop and its status file               *)
(*     (monitor_and_keep_alive.py, lg_r290_modbus.read_all_registers),     *)
(*   - the standalone keep-alive loop (keep_alive.py),                     *)
(*   - the consumers of the status file (service/main.py,                  *)
(*     service/adaptive_controller.py),                                    *)
(*   - the tasks of the API service that share one Modbus client.          *)
(* Temperatures are kept in tenths of a degree (the register resolution),  *)
(* times in whole seconds.                                                 *)
(***************************************************************************)
EXTENDS Integers, Sequences, FiniteSets, TLC

VARIABLES
    \* ---- one call of a retry wrapper ----
    w_pc,        \* "idle" | "request" | "backoff" | "returned" | "raised"
    w_fn,        \* which wrapper runs
    w_count,     \* the register count the caller asked for
    w_attempt,   \* the loop variable `attempt`
    w_log,       \* what the call did so far: requests issued and sleeps taken
    w_result,    \* NoResult while running; None or the response returned
    \* ---- the world ----
    now,         \* wall clock, seconds
    dev,         \* the heat pump: [power, target, offset]
    \* ---- the file system holding status.json and status.tmp ----
    fs_path,     \* path -> inode number, 0 when the path does not exist
    fs_ino,      \* inode number -> [data, bytes, mtime]
    \* ---- monitor_and_keep_alive.monitoring_loop ----
    m_pc,        \* where the loop is
    m_client,    \* the local `client`: "conn" or "none" (None)
    m_poll_count,
    m_errors,    \* consecutive_errors
    m_in,        \* read_all_registers: input_result
    m_hold,      \* read_all_registers: holding_result
    m_status,    \* the local `status`: NoResult, None or the status dict
    g_reads,     \* history: the reads issued in the current cycle
    g_run,       \* history: failed cycles since the last successful poll
    g_recon,     \* history: reconnect attempts since the last successful poll
    g_last,      \* history: the snapshot of the last completed publish
    \* ---- processes that read status.json ----
    rd,          \* reader -> [pc, ino, got, at, during]; at and during are
                 \* history: the last publish at open(), the writer's
                 \* position at read()
    answer,      \* the answer a consumer of status.json gave last
    \* ---- keep_alive.keep_alive ----
    k_pc,
    k_client,    \* "conn", "lost" (client.connected is False) or "none"
    k_cycle,
    k_failures,  \* consecutive_failures
    k_reads,     \* history: the reads issued in the current cycle
    \* ---- service/main.py: the tasks sharing modbus_client ----
    api_client,  \* the global modbus_client: "unset", "conn" or "none"
    tk,          \* task -> [pc, attempt, offset, result]
    \* ---- service/heating_curve.py: HeatingCurveConfig ----
    hc_file,     \* heating_curve_config.json on disk
    hc_config,   \* self.config, the active policy
    hy,          \* the last calculate_flow_temp call and the power state it
                 \* was made in and leads to
    \* ---- service/adaptive_controller.py: AdaptiveController ----
    ac,          \* the control loop: position, enabled flag, the tick's inputs,
                 \* the interval and threshold in use, the writes it issued
    \* ---- one call of a set-target-temperature / set-offset operation ----
    sw,          \* [pc, impl, value, requests, result]
    \* ---- the conversions between temperatures and register values ----
    cv,          \* the last conversion: what went in and what came out
    \* ---- service/scheduler.py: one apply_schedule_action ----
    sc,          \* [pc, action, mode, requests, result] and the thermostat
                 \* configuration and offset the requests changed
    \* ---- service/modbus_client.py: HeatPumpModbusClient ----
    hp           \* the power coil, _cached_data['is_on'], the requests and
                 \* responses in flight, the poll and the set_power call

retryVars == <<w_pc, w_fn, w_count, w_attempt, w_log, w_result>>
envVars == <<now, dev>>
fsVars == <<fs_path, fs_ino>>
pollVars == <<m_pc, m_client, m_poll_count, m_errors, m_in, m_hold, m_status,
              g_reads, g_run, g_recon, g_last>>
rdVars == <<rd>>
consVars == <<answer>>
kaVars == <<k_pc, k_client, k_cycle, k_failures, k_reads>>
taskVars == <<api_client, tk>>
curveVars == <<hc_file, hc_config, hy>>
ctlVars == <<ac>>
setVars == <<sw>>
convVars == <<cv>>
schedVars == <<sc>>
clientVars == <<hp>>

vars == <<retryVars, envVars, fsVars, pollVars, rdVars, consVars, kaVars, taskVars,
          curveVars, ctlVars, setVars, convVars, schedVars, clientVars>>

\* What the steps of each component leave alone.
RetryFrame == UNCHANGED <<envVars, fsVars, pollVars, rdVars, consVars, kaVars, taskVars,
                         curveVars, ctlVars, setVars,
                         convVars, schedVars, clientVars>>
PollFrame == UNCHANGED <<retryVars, rdVars, consVars, kaVars, taskVars,
                         curveVars, ctlVars, setVars,
                         convVars, schedVars, clientVars>>
ReaderFrame == UNCHANGED <<retryVars, envVars, pollVars, consVars, kaVars, taskVars,
                         curveVars, ctlVars, setVars,
                         convVars, schedVars, clientVars>>
ConsFrame == UNCHANGED <<retryVars, envVars, fsVars, pollVars, rdVars, kaVars, taskVars,
                         curveVars, ctlVars, setVars,
                         convVars, schedVars, clientVars>>
KaFrame == UNCHANGED <<retryVars, envVars, fsVars, pollVars, rdVars, consVars, taskVars,
                         curveVars, ctlVars, setVars,
                         convVars, schedVars, clientVars>>
TaskFrame == UNCHANGED <<retryVars, now, fsVars, pollVars, rdVars, consVars, kaVars,
                          curveVars, ctlVars, setVars,
                         convVars, schedVars, clientVars>>
CurveFrame == UNCHANGED <<retryVars, envVars, fsVars, pollVars, rdVars, consVars,
                          kaVars, taskVars, setVars,
                         convVars, schedVars, clientVars>>
CtlFrame == UNCHANGED <<retryVars, envVars, fsVars, pollVars, rdVars, consVars,
                        kaVars, taskVars, hc_file, hy, setVars,
                         convVars, schedVars, clientVars>>
ConvFrame == UNCHANGED <<retryVars, envVars, fsVars, pollVars, rdVars, consVars,
                         kaVars, taskVars, curveVars, ctlVars, setVars, schedVars,
                         clientVars>>
SchedFrame == UNCHANGED <<retryVars, envVars, fsVars, pollVars, rdVars, consVars,
                          kaVars, taskVars, curveVars, ctlVars, setVars, convVars,
                          clientVars>>
ClientFrame == UNCHANGED <<retryVars, envVars, fsVars, pollVars, rdVars, consVars,
                           kaVars, taskVars, curveVars, ctlVars, setVars, convVars,
                           schedVars>>
SetFrame == UNCHANGED <<retryVars, now, fsVars, pollVars, rdVars, consVars,
                        kaVars, taskVars, curveVars, ctlVars,
                         convVars, schedVars, clientVars>>

-----------------------------------------------------------------------------
(* Program constants *)

MAX_RETRIES == 3
RETRY_DELAY == 2
\* 0.2 s, in milliseconds
INTER_REQUEST_DELAY == 200
KA_MAX_RETRIES == 3
KA_DELAY_FACTOR == 2

COIL_POWER == 0
HOLDING_OP_MODE == 0
HOLDING_CONTROL_METHOD == 1
HOLDING_TARGET_TEMP == 2
HOLDING_AUTO_MODE_OFFSET == 4
HOLDING_ENERGY_STATE == 9
INPUT_ERROR_CODE == 0
INPUT_OPERATING_MODE == 1
INPUT_RETURN_TEMP == 2
INPUT_FLOW_TEMP == 3
INPUT_OUTDOOR_TEMP == 12
INPUT_COUNT == 13
HOLDING_COUNT == 10

POLL_INTERVAL == 30
max_consecutive_errors == 5

(* Bounds of the model *)

\* Poll cycles the monitor loop is followed for.
MaxPolls == 7
\* Processes reading status.json next to the monitor.
NumReaders == 2
\* write() calls it takes to put one snapshot into a file.
Chunks == 2
\* Poll cycles the writer of status.json is followed for next to its readers.
CachePolls == 3

-----------------------------------------------------------------------------
(* The retry wrappers *)

OpWrapper == "modbus_operation_with_retry"
ReadWrapper == "modbus_read_with_retry"
Wrappers == {OpWrapper, ReadWrapper}

\* Register counts the callers ask for: read_all_registers reads 13 input and
\* 10 holding registers, keep_alive.read_status reads 13, 3 and 1.
Counts == {1, 3, 10, 13}

NoResult == [kind |-> "none"]
None == [kind |-> "None"]

\* What the gateway can answer to one request for `count` registers: a
\* response without error carrying n <= count registers (n < count after a
\* bus collision), an error response, a timeout, or another exception.
OkResp(n) == [kind |-> "ok", len |-> n]
ErrorResp == [kind |-> "error"]
TimeoutResp == [kind |-> "timeout"]
ExceptionResp == [kind |-> "exception"]
Responses(count) ==
    {OkResp(n) : n \in 0..count} \cup {ErrorResp, TimeoutResp, ExceptionResp}

ReqEvent(resp) == [ev |-> "req", resp |-> resp]
SleepEvent(d) == [ev |-> "sleep", d |-> d]

\* lg_r290_modbus.py: a response is returned as soon as isError() is false.
OpAccepts(resp, count) == resp.kind = "ok"

\* keep_alive.py: isError() is false and the register count is the one asked.
ReadAccepts(resp, count) == resp.kind = "ok" /\ resp.len = count

Accepts(fn, resp, count) ==
    IF fn = OpWrapper THEN OpAccepts(resp, count) ELSE ReadAccepts(resp, count)

MaxAttempts(fn) == IF fn = OpWrapper THEN MAX_RETRIES ELSE KA_MAX_RETRIES

\* The caller enters the wrapper: attempt 0 is issued without a sleep.
RetryCall(fn, count) ==
    /\ w_pc = "idle"
    /\ w_pc' = "request"
    /\ w_fn' = fn
    /\ w_count' = count
    /\ w_attempt' = 0
    /\ w_log' = <<>>
    /\ w_result' = NoResult
    /\ RetryFrame

\* Mutant of AfterRequest: a failed attempt ends the call at once instead of
\* being retried.
AfterRequestNoRetry(fn, attempt, resp, count) ==
    IF Accepts(fn, resp, count)
    THEN [pc |-> "returned", result |-> resp, attempt |-> attempt]
    ELSE [pc |-> "returned", result |-> None, attempt |-> attempt]

\* What the wrapper does with the outcome of the request of this attempt:
\* return it, return None, or go on to the next attempt.
AfterRequest(fn, attempt, resp, count) ==
    IF Accepts(fn, resp, count)
    THEN [pc |-> "returned", result |-> resp, attempt |-> attempt]
    ELSE IF attempt < MaxAttempts(fn) - 1
         THEN [pc |-> "backoff", result |-> NoResult,
               \* lg: `continue` advances the loop before the sleep;
               \* keep_alive: the sleep comes before `continue`.
               attempt |-> IF fn = OpWrapper THEN attempt + 1 ELSE attempt]
         ELSE [pc |-> "returned", result |-> None, attempt |-> attempt]

\* The request of the current attempt is issued and its outcome handled.
RetryRequest(resp) ==
    /\ w_pc = "request"
    /\ w_attempt < MaxAttempts(w_fn)
    /\ LET nxt == AfterRequest(w_fn, w_attempt, resp, w_count) IN
        /\ w_pc' = nxt.pc
        /\ w_result' = nxt.result
        /\ w_attempt' = nxt.attempt
    /\ w_log' = Append(w_log, ReqEvent(resp))
    /\ UNCHANGED <<w_fn, w_count>>
    /\ RetryFrame

\* Mutant of BackoffDelay: the same delay before every retry.
BackoffDelayFlat(fn, attempt) ==
    IF fn = OpWrapper THEN RETRY_DELAY ELSE KA_DELAY_FACTOR

\* The sleep before the next attempt.
BackoffDelay(fn, attempt) ==
    IF fn = OpWrapper THEN RETRY_DELAY * attempt
    ELSE KA_DELAY_FACTOR * (attempt + 1)

RetryBackoff ==
    /\ w_pc = "backoff"
    /\ w_log' = Append(w_log, SleepEvent(BackoffDelay(w_fn, w_attempt)))
    /\ w_attempt' = IF w_fn = OpWrapper THEN w_attempt ELSE w_attempt + 1
    /\ w_pc' = "request"
    /\ UNCHANGED <<w_fn, w_count, w_result>>
    /\ RetryFrame

\* The caller takes the result; the wrapper keeps no state between calls.
RetryReturn ==
    /\ w_pc = "returned"
    /\ w_pc' = "idle"
    /\ w_result' = NoResult
    /\ w_log' = <<>>
    /\ w_attempt' = 0
    /\ UNCHANGED <<w_fn, w_count>>
    /\ RetryFrame

\* The results a call of modbus_operation_with_retry can hand to its caller
\* when the gateway answers with responses out of `resps`.
OpResults(resps, count) == {r \in resps : OpAccepts(r, count)} \cup {None}

RetryInit ==
    /\ w_pc = "idle"
    /\ w_fn = OpWrapper
    /\ w_count = 1
    /\ w_attempt = 0
    /\ w_log = <<>>
    /\ w_result = NoResult

RetryNext ==
    \/ \E fn \in Wrappers, c \in Counts : RetryCall(fn, c)
    \/ \E resp \in Responses(w_count) : RetryRequest(resp)
    \/ RetryBackoff
    \/ RetryReturn


-----------------------------------------------------------------------------
(* The heat pump behind the gateway *)

decode_temperature(value) ==
    IF value > 32767 THEN value - 65536 ELSE value

\* Input registers 30001..30013 (addresses 0..12): standby/heating cycle,
\* return 30.0, flow 35.0, outdoor -5.0 as the two's complement 65486.
InputBank(d) ==
    [i \in 0..(INPUT_COUNT - 1) |->
        CASE i = INPUT_ERROR_CODE -> 0
          [] i = INPUT_OPERATING_MODE -> IF d.power THEN 2 ELSE 0
          [] i = INPUT_RETURN_TEMP -> 300
          [] i = INPUT_FLOW_TEMP -> 350
          [] i = INPUT_OUTDOOR_TEMP -> 65486
          [] OTHER -> 0]

\* Holding registers 40001..40010 (addresses 0..9).
HoldingBank(d) ==
    [i \in 0..(HOLDING_COUNT - 1) |->
        CASE i = HOLDING_OP_MODE -> 3
          [] i = HOLDING_CONTROL_METHOD -> 0
          [] i = HOLDING_TARGET_TEMP -> d.target
          [] i = HOLDING_AUTO_MODE_OFFSET -> d.offset
          [] i = HOLDING_ENERGY_STATE -> 0
          [] OTHER -> 0]

\* A response without error that carries n registers of a bank, from
\* `address` on.
RegResp(bank, address, n) ==
    [kind |-> "ok", len |-> n,
     registers |-> [i \in 0..(n - 1) |-> bank[address + i]]]

CoilResp(bit) == [kind |-> "ok", bits |-> bit]

\* Register counts a response to a request for `count` registers carries:
\* all of them, or fewer after a collision on the shared bus.
RespLens(count) == {0, count - 1, count}

RegResponses(bank, address, count) ==
    {RegResp(bank, address, n) : n \in RespLens(count)} \cup
    {ErrorResp, TimeoutResp, ExceptionResp}

CoilResponses(d) == {CoilResp(d.power), ErrorResp, TimeoutResp, ExceptionResp}

\* The device is switched on or off at its own panel.
DeviceSwitch ==
    /\ dev' = [dev EXCEPT !.power = ~dev.power]
    /\ UNCHANGED <<now, retryVars, fsVars, pollVars, rdVars, consVars, kaVars, taskVars,
                   curveVars, ctlVars, setVars, convVars, schedVars, clientVars>>

-----------------------------------------------------------------------------
(* The file system: status.json, status.tmp and the inodes behind them *)

NoData == [kind |-> "nodata"]
FreeInode == [data |-> NoData, bytes |-> 0, mtime |-> 0]
Readers == 1..NumReaders
Inodes == 1..(NumReaders + 2)
IdleReader == [pc |-> "idle", ino |-> 0, got |-> NoResult, at |-> NoResult,
               during |-> ""]

Referenced(i, path, rdr) ==
    \/ path.status = i
    \/ path.tmp = i
    \/ \E r \in Readers : rdr[r].ino = i

\* An inode nothing refers to any more is gone.
Collect(ino, path, rdr) ==
    [i \in Inodes |-> IF Referenced(i, path, rdr) THEN ino[i] ELSE FreeInode]

FreshInode == CHOOSE i \in Inodes :
    /\ ~Referenced(i, fs_path, rd)
    /\ \A j \in Inodes : j < i => Referenced(j, fs_path, rd)

StatusExists == fs_path.status # 0
StatusFile == fs_ino[fs_path.status]
Complete(f) == f.data # NoData /\ f.bytes = Chunks

\* What json.load makes of a file: the snapshot, or an error for an empty or
\* partly written file.
JsonLoad(f) == IF Complete(f) THEN f.data ELSE [kind |-> "JSONDecodeError"]

\* Mutant of Touch: the failed cycle leaves the status file alone.
TouchNothing == UNCHANGED fsVars

\* Mutant of Touch: the failed cycle writes a snapshot of default values,
\* stamped with the current time, over the status file.
TouchDefaults ==
    LET i == IF StatusExists THEN fs_path.status ELSE FreshInode IN
        /\ fs_path' = [fs_path EXCEPT !.status = i]
        /\ fs_ino' = [fs_ino EXCEPT ![i] =
                         [data |-> [power_state |-> "OFF", timestamp |-> now],
                          bytes |-> Chunks, mtime |-> now]]

\* Path.touch(exist_ok=True): refresh the modification time, creating an
\* empty file when there is none.
Touch ==
    IF StatusExists
    THEN /\ fs_ino' = [fs_ino EXCEPT ![fs_path.status].mtime = now]
         /\ UNCHANGED fs_path
    ELSE /\ fs_path' = [fs_path EXCEPT !.status = FreshInode]
         /\ fs_ino' = [fs_ino EXCEPT ![FreshInode] =
                          [data |-> NoData, bytes |-> 0, mtime |-> now]]

FsInit ==
    /\ fs_path = [status |-> 0, tmp |-> 0]
    /\ fs_ino = [i \in Inodes |-> FreeInode]

-----------------------------------------------------------------------------
(* lg_r290_modbus.read_all_registers *)

HasIndex(resp, i) == i \in DOMAIN resp.registers

\* The dict read_all_registers builds from the three results; indexing a
\* register the response does not carry raises IndexError, which the
\* function's except clause turns into None.
ReadAllStatus(input_result, holding_result, coil_result) ==
    IF \/ \E i \in {INPUT_ERROR_CODE, INPUT_OPERATING_MODE, INPUT_FLOW_TEMP,
                    INPUT_RETURN_TEMP, INPUT_OUTDOOR_TEMP} :
              ~HasIndex(input_result, i)
       \/ \E i \in {HOLDING_OP_MODE, HOLDING_CONTROL_METHOD, HOLDING_TARGET_TEMP,
                    HOLDING_AUTO_MODE_OFFSET, HOLDING_ENERGY_STATE} :
              ~HasIndex(holding_result, i)
    THEN None
    ELSE [power_state |->
              IF coil_result # None /\ coil_result.bits THEN "ON" ELSE "OFF",
          error_code |-> input_result.registers[INPUT_ERROR_CODE],
          operating_mode |-> input_result.registers[INPUT_OPERATING_MODE],
          flow_temp |-> decode_temperature(input_result.registers[INPUT_FLOW_TEMP]),
          return_temp |-> decode_temperature(input_result.registers[INPUT_RETURN_TEMP]),
          outdoor_temp |-> decode_temperature(input_result.registers[INPUT_OUTDOOR_TEMP]),
          op_mode |-> holding_result.registers[HOLDING_OP_MODE],
          control_method |-> holding_result.registers[HOLDING_CONTROL_METHOD],
          target_temp |-> decode_temperature(holding_result.registers[HOLDING_TARGET_TEMP]),
          auto_mode_offset |-> holding_result.registers[HOLDING_AUTO_MODE_OFFSET],
          energy_state |-> holding_result.registers[HOLDING_ENERGY_STATE]]

\* A read a cycle issues: the registers asked for, whether the wrapper handed
\* a result back, and the pause slept just before it (milliseconds).
ReadEvent(reg, res, pause) == [reg |-> reg, ok |-> res # None, pause |-> pause]

-----------------------------------------------------------------------------
(* monitor_and_keep_alive.monitoring_loop *)

LoopStates == {"read_input", "read_holding", "read_coil", "open_tmp",
               "write_tmp", "rename", "failed", "reconnect", "sleep"}

\* connect_gateway() before the loop: the daemon exits when it fails.
MConnect(ok) ==
    /\ m_pc = "connect"
    /\ IF ok
       THEN /\ m_client' = "conn"
            /\ m_pc' = "read_input"
            /\ m_poll_count' = 1
       ELSE /\ m_pc' = "exited"
            /\ UNCHANGED <<m_client, m_poll_count>>
    /\ UNCHANGED <<m_errors, m_in, m_hold, m_status, g_reads, g_run, g_recon, g_last>>
    /\ UNCHANGED <<envVars, fsVars>>
    /\ PollFrame

\* read_all_registers, first read. With client = None the attribute access
\* raises inside the try block and the function returns None.
MReadInput(res) ==
    /\ m_pc = "read_input"
    /\ IF m_client = "none"
       THEN /\ m_status' = None
            /\ m_pc' = "failed"
            /\ UNCHANGED <<m_in, g_reads>>
       ELSE /\ g_reads' = Append(g_reads, ReadEvent("input", res, INTER_REQUEST_DELAY))
            /\ IF res = None
               THEN /\ m_status' = None
                    /\ m_pc' = "failed"
                    /\ UNCHANGED m_in
               ELSE /\ m_in' = res
                    /\ m_pc' = "read_holding"
                    /\ UNCHANGED m_status
    /\ UNCHANGED <<m_client, m_poll_count, m_errors, m_hold, g_run, g_recon, g_last>>
    /\ UNCHANGED <<envVars, fsVars>>
    /\ PollFrame

MReadHolding(res) ==
    /\ m_pc = "read_holding"
    /\ g_reads' = Append(g_reads, ReadEvent("holding", res, INTER_REQUEST_DELAY))
    /\ IF res = None
       THEN /\ m_status' = None
            /\ m_pc' = "failed"
            /\ UNCHANGED m_hold
       ELSE /\ m_hold' = res
            /\ m_pc' = "read_coil"
            /\ UNCHANGED m_status
    /\ UNCHANGED <<m_client, m_poll_count, m_errors, m_in, g_run, g_recon, g_last>>
    /\ UNCHANGED <<envVars, fsVars>>
    /\ PollFrame

\* Mutant of MReadCoil: a successful poll leaves the error counter as it is.
MReadCoilKeepsCount(res) ==
    /\ m_pc = "read_coil"
    /\ g_reads' = Append(g_reads, ReadEvent("coil", res, INTER_REQUEST_DELAY))
    /\ LET status == ReadAllStatus(m_in, m_hold, res) IN
        /\ m_status' = status
        /\ IF status # None
           THEN /\ g_run' = 0
                /\ g_recon' = 0
                /\ m_pc' = "open_tmp"
           ELSE /\ m_pc' = "failed"
                /\ UNCHANGED <<g_run, g_recon>>
    /\ UNCHANGED <<m_client, m_poll_count, m_errors, m_in, m_hold, g_last>>
    /\ UNCHANGED <<envVars, fsVars>>
    /\ PollFrame

\* The third read, the dict, and the loop's `if status:` with the reset of
\* the error counter.
MReadCoil(res) ==
    /\ m_pc = "read_coil"
    /\ g_reads' = Append(g_reads, ReadEvent("coil", res, INTER_REQUEST_DELAY))
    /\ LET status == ReadAllStatus(m_in, m_hold, res) IN
        /\ m_status' = status
        /\ IF status # None
           THEN /\ m_errors' = 0
                /\ g_run' = 0
                /\ g_recon' = 0
                /\ m_pc' = "open_tmp"
           ELSE /\ m_pc' = "failed"
                /\ UNCHANGED <<m_errors, g_run, g_recon>>
    /\ UNCHANGED <<m_client, m_poll_count, m_in, m_hold, g_last>>
    /\ UNCHANGED <<envVars, fsVars>>
    /\ PollFrame

\* Mutant of MOpenTmp: the snapshot is written into status.json itself, that
\* is open(file_path, 'w') instead of a temporary file and a rename.
MOpenInPlace ==
    /\ m_pc = "open_tmp"
    /\ m_status' = [f \in DOMAIN m_status \cup {"timestamp"} |->
                       IF f = "timestamp" THEN now ELSE m_status[f]]
    /\ LET i == IF StatusExists THEN fs_path.status ELSE FreshInode IN
        /\ fs_path' = [status |-> i, tmp |-> i]
        /\ fs_ino' = [fs_ino EXCEPT ![i] =
                         [data |-> NoData, bytes |-> 0, mtime |-> now]]
    /\ m_pc' = "write_tmp"
    /\ UNCHANGED <<m_client, m_poll_count, m_errors, m_in, m_hold,
                   g_reads, g_run, g_recon, g_last>>
    /\ UNCHANGED envVars
    /\ PollFrame

\* write_status_to_file: the timestamp, then open(temp_file, 'w').
MOpenTmp ==
    /\ m_pc = "open_tmp"
    /\ m_status' = [f \in DOMAIN m_status \cup {"timestamp"} |->
                       IF f = "timestamp" THEN now ELSE m_status[f]]
    /\ IF fs_path.tmp # 0
       THEN /\ fs_ino' = [fs_ino EXCEPT ![fs_path.tmp] =
                             [data |-> NoData, bytes |-> 0, mtime |-> now]]
            /\ UNCHANGED fs_path
       ELSE /\ fs_path' = [fs_path EXCEPT !.tmp = FreshInode]
            /\ fs_ino' = [fs_ino EXCEPT ![FreshInode] =
                             [data |-> NoData, bytes |-> 0, mtime |-> now]]
    /\ m_pc' = "write_tmp"
    /\ UNCHANGED <<m_client, m_poll_count, m_errors, m_in, m_hold,
                   g_reads, g_run, g_recon, g_last>>
    /\ UNCHANGED envVars
    /\ PollFrame

\* json.dump into the temporary file, closed when the last chunk is out.
MWriteTmp ==
    /\ m_pc = "write_tmp"
    /\ LET f == fs_ino[fs_path.tmp] IN
        /\ fs_ino' = [fs_ino EXCEPT ![fs_path.tmp] =
                         [data |-> m_status, bytes |-> f.bytes + 1, mtime |-> now]]
        /\ m_pc' = IF f.bytes + 1 = Chunks THEN "rename" ELSE "write_tmp"
    /\ UNCHANGED <<fs_path, m_client, m_poll_count, m_errors, m_in, m_hold,
                   m_status, g_reads, g_run, g_recon, g_last>>
    /\ UNCHANGED envVars
    /\ PollFrame

\* temp_file.rename(file_path): the path changes inode in one step.
MRename ==
    /\ m_pc = "rename"
    /\ LET path == [status |-> fs_path.tmp, tmp |-> 0] IN
        /\ fs_path' = path
        /\ fs_ino' = Collect(fs_ino, path, rd)
    /\ m_pc' = "sleep"
    /\ g_last' = m_status
    /\ UNCHANGED <<m_client, m_poll_count, m_errors, m_in, m_hold, m_status,
                   g_reads, g_run, g_recon>>
    /\ UNCHANGED envVars
    /\ PollFrame

\* Mutant of MPollFailed: the threshold is compared with > instead of >=.
MPollFailedLate ==
    /\ m_pc = "failed"
    /\ Touch
    /\ m_errors' = m_errors + 1
    /\ g_run' = g_run + 1
    /\ IF m_errors + 1 > max_consecutive_errors
       THEN /\ m_pc' = "reconnect"
            /\ g_recon' = g_recon + 1
       ELSE /\ m_pc' = "sleep"
            /\ UNCHANGED g_recon
    /\ UNCHANGED <<m_client, m_poll_count, m_in, m_hold, m_status, g_reads, g_last>>
    /\ UNCHANGED envVars
    /\ PollFrame

\* The else branch of `if status:` up to the first await: touch the status
\* file, count the failure, close the client on too many failures.
MPollFailed ==
    /\ m_pc = "failed"
    /\ Touch
    /\ m_errors' = m_errors + 1
    /\ g_run' = g_run + 1
    /\ IF m_errors + 1 >= max_consecutive_errors
       THEN /\ m_pc' = "reconnect"
            /\ g_recon' = g_recon + 1
       ELSE /\ m_pc' = "sleep"
            /\ UNCHANGED g_recon
    /\ UNCHANGED <<m_client, m_poll_count, m_in, m_hold, m_status, g_reads, g_last>>
    /\ UNCHANGED envVars
    /\ PollFrame

\* Mutant of MReconnect: the error counter is reset whether or not the
\* gateway took the connection.
MReconnectResets(ok) ==
    /\ m_pc = "reconnect"
    /\ m_client' = IF ok THEN "conn" ELSE "none"
    /\ m_errors' = 0
    /\ m_pc' = "sleep"
    /\ UNCHANGED <<m_poll_count, m_in, m_hold, m_status, g_reads, g_run, g_recon, g_last>>
    /\ UNCHANGED <<envVars, fsVars>>
    /\ PollFrame

\* After client.close() and the 2 s sleep: client = await connect_gateway().
MReconnect(ok) ==
    /\ m_pc = "reconnect"
    /\ IF ok
       THEN /\ m_client' = "conn"
            /\ m_errors' = 0
       ELSE /\ m_client' = "none"
            /\ UNCHANGED m_errors
    /\ m_pc' = "sleep"
    /\ UNCHANGED <<m_poll_count, m_in, m_hold, m_status, g_reads, g_run, g_recon, g_last>>
    /\ UNCHANGED <<envVars, fsVars>>
    /\ PollFrame

\* await asyncio.sleep(POLL_INTERVAL), then the next cycle begins.
MSleep ==
    /\ m_pc = "sleep"
    /\ m_poll_count < MaxPolls
    /\ now' = now + POLL_INTERVAL
    /\ m_poll_count' = m_poll_count + 1
    /\ m_pc' = "read_input"
    /\ m_in' = NoResult
    /\ m_hold' = NoResult
    /\ m_status' = NoResult
    /\ g_reads' = <<>>
    /\ UNCHANGED <<m_client, m_errors, g_run, g_recon, g_last, dev>>
    /\ UNCHANGED fsVars
    /\ PollFrame

MCancelLeavesOpen ==
    /\ m_pc \in {"read_input", "read_holding", "read_coil", "reconnect", "sleep"}
    /\ m_pc' = "stopped"
    /\ UNCHANGED <<m_client, m_poll_count, m_errors, m_in, m_hold, m_status,
                   g_reads, g_run, g_recon, g_last>>
    /\ UNCHANGED <<envVars, fsVars>>
    /\ PollFrame

\* CancelledError or KeyboardInterrupt at an await of the loop; the finally
\* block closes the client.
MCancel ==
    /\ m_pc \in {"read_input", "read_holding", "read_coil", "reconnect", "sleep"}
    /\ m_pc' = "stopped"
    /\ m_client' = IF m_client = "conn" THEN "closed" ELSE m_client
    /\ UNCHANGED <<m_poll_count, m_errors, m_in, m_hold, m_status,
                   g_reads, g_run, g_recon, g_last>>
    /\ UNCHANGED <<envVars, fsVars>>
    /\ PollFrame

PollInit ==
    /\ m_pc = "connect"
    /\ m_client = "none"
    /\ m_poll_count = 0
    /\ m_errors = 0
    /\ m_in = NoResult
    /\ m_hold = NoResult
    /\ m_status = NoResult
    /\ g_reads = <<>>
    /\ g_run = 0
    /\ g_recon = 0
    /\ g_last = NoData

EnvInit ==
    /\ now = 0
    /\ dev = [power |-> TRUE, target |-> 350, offset |-> 0]

RdInit == rd = [r \in Readers |-> IdleReader]

PollNext ==
    \/ \E ok \in BOOLEAN : MConnect(ok)
    \/ \E res \in OpResults(RegResponses(InputBank(dev), 0, INPUT_COUNT), INPUT_COUNT) :
          MReadInput(res)
    \/ \E res \in OpResults(RegResponses(HoldingBank(dev), 0, HOLDING_COUNT), HOLDING_COUNT) :
          MReadHolding(res)
    \/ \E res \in OpResults(CoilResponses(dev), 1) : MReadCoil(res)
    \/ MOpenTmp
    \/ MWriteTmp
    \/ MRename
    \/ MPollFailed
    \/ \E ok \in BOOLEAN : MReconnect(ok)
    \/ MSleep
    \/ MCancel

-----------------------------------------------------------------------------
(* A process that opens status.json and reads it *)

FileNotFound == [kind |-> "FileNotFoundError"]

\* open(STATUS_FILE): the reader holds the inode the path names now.
ROpen(r) ==
    /\ rd[r].pc = "idle"
    /\ IF StatusExists
       THEN rd' = [rd EXCEPT ![r] = [pc |-> "open", ino |-> fs_path.status,
                                     got |-> NoResult, at |-> g_last,
                                     during |-> ""]]
       ELSE rd' = [rd EXCEPT ![r] = [pc |-> "done", ino |-> 0,
                                     got |-> FileNotFound, at |-> g_last,
                                     during |-> m_pc]]
    /\ UNCHANGED fsVars
    /\ ReaderFrame

\* read() and close(): what the inode holds at this moment.
RRead(r) ==
    /\ rd[r].pc = "open"
    /\ LET f == fs_ino[rd[r].ino]
           rdr == [rd EXCEPT ![r] = [pc |-> "done", ino |-> 0,
                                     got |-> [data |-> f.data, bytes |-> f.bytes],
                                     at |-> rd[r].at, during |-> m_pc]]
       IN  /\ rd' = rdr
           /\ fs_ino' = Collect(fs_ino, fs_path, rdr)
    /\ UNCHANGED fs_path
    /\ ReaderFrame

RForget(r) ==
    /\ rd[r].pc = "done"
    /\ rd' = [rd EXCEPT ![r] = IdleReader]
    /\ UNCHANGED fsVars
    /\ ReaderFrame

ReaderNext ==
    \/ \E r \in Readers : ROpen(r)
    \/ \E r \in Readers : RRead(r)
    \/ \E r \in Readers : RForget(r)

-----------------------------------------------------------------------------
(* The consumers of status.json: service/main.py and the adaptive controller *)

STALE_AFTER == 30

IsJsonError(data) == data = [kind |-> "JSONDecodeError"]

Answer(who, code, used, age) ==
    [who |-> who, code |-> code, used |-> used, age |-> age]

\* GET /health: 503 without a file, on a file json.load rejects, and on a
\* timestamp older than 30 s (the HTTPException raised for it is caught by
\* the handler's own except clause and raised again as a 503).
health_check ==
    /\ answer' =
        IF ~StatusExists THEN Answer("health_check", 503, NoData, 0)
        ELSE LET data == JsonLoad(StatusFile) IN
             IF IsJsonError(data) THEN Answer("health_check", 503, NoData, 0)
             ELSE IF now - data.timestamp > STALE_AFTER
                  THEN Answer("health_check", 503, NoData, now - data.timestamp)
                  ELSE Answer("health_check", 200, data, now - data.timestamp)
    /\ ConsFrame

\* GET /status: 503 without a file, 500 on a file json.load rejects, else the
\* values of the file.
get_status ==
    /\ answer' =
        IF ~StatusExists THEN Answer("get_status", 503, NoData, 0)
        ELSE LET data == JsonLoad(StatusFile) IN
             IF IsJsonError(data) THEN Answer("get_status", 500, NoData, 0)
             ELSE Answer("get_status", 200, data, now - data.timestamp)
    /\ ConsFrame

\* AdaptiveController._adjust_flow_temperature up to the read of status.json:
\* it returns early without both temperatures or without the file; an
\* unreadable file raises into the except clause of the tick; otherwise
\* power_state and target_temp of the file are what the tick works with.
CtrlReadStatus(have_temps) ==
    /\ answer' =
        IF ~have_temps THEN Answer("_adjust_flow_temperature", 0, NoData, 0)
        ELSE IF ~StatusExists THEN Answer("_adjust_flow_temperature", 0, NoData, 0)
        ELSE LET data == JsonLoad(StatusFile) IN
             IF IsJsonError(data) THEN Answer("_adjust_flow_temperature", 0, NoData, 0)
             ELSE Answer("_adjust_flow_temperature", 0, data, now - data.timestamp)
    /\ ConsFrame

ConsInit == answer = Answer("none", 0, NoData, 0)

ConsNext ==
    \/ health_check
    \/ get_status
    \/ \E have_temps \in BOOLEAN : CtrlReadStatus(have_temps)

-----------------------------------------------------------------------------
(* keep_alive.py: read_status and the keep_alive loop *)

ka_max_consecutive_failures == 5

\* The results a call of modbus_read_with_retry can hand to its caller.
ReadResults(resps, count) == {r \in resps : ReadAccepts(r, count)} \cup {None}

\* connect_gateway() before the loop.
KConnect(ok) ==
    /\ k_pc = "connect"
    /\ IF ok
       THEN /\ k_client' = "conn"
            /\ k_pc' = "ensure"
            /\ k_cycle' = 1
       ELSE /\ k_pc' = "exited"
            /\ UNCHANGED <<k_client, k_cycle>>
    /\ UNCHANGED <<k_failures, k_reads>>
    /\ KaFrame

\* The TCP connection drops while the loop sleeps or reads.
KDrop ==
    /\ k_pc \in {"ensure", "sleep"}
    /\ k_client = "conn"
    /\ k_client' = "lost"
    /\ UNCHANGED <<k_pc, k_cycle, k_failures, k_reads>>
    /\ KaFrame

\* What a failed cycle does: count it, give up on the fifth in a row, else
\* sleep and go on with the next cycle.
KAfterFailure(failures) ==
    IF failures + 1 >= ka_max_consecutive_failures
    THEN [pc |-> "exited", failures |-> failures + 1]
    ELSE [pc |-> "sleep", failures |-> failures + 1]

\* client = await ensure_connection(client): a connected client is kept,
\* otherwise connect_gateway() is tried once.
KEnsure(ok) ==
    /\ k_pc = "ensure"
    /\ IF k_client = "conn"
       THEN /\ k_pc' = "read_input"
            /\ UNCHANGED <<k_client, k_failures>>
       ELSE IF ok
            THEN /\ k_client' = "conn"
                 /\ k_pc' = "read_input"
                 /\ UNCHANGED k_failures
            ELSE /\ k_client' = "none"
                 /\ k_pc' = KAfterFailure(k_failures).pc
                 /\ k_failures' = KAfterFailure(k_failures).failures
    /\ UNCHANGED <<k_cycle, k_reads>>
    /\ KaFrame

\* read_status: three reads, none of them with a sleep before it; the first
\* None ends it with None.
KRead(reg, next, res) ==
    /\ k_pc = reg
    /\ k_reads' = Append(k_reads, ReadEvent(reg, res, 0))
    /\ IF res = None
       THEN /\ k_pc' = KAfterFailure(k_failures).pc
            /\ k_failures' = KAfterFailure(k_failures).failures
       ELSE /\ k_pc' = next
            /\ k_failures' = IF next = "sleep" THEN 0 ELSE k_failures
    /\ UNCHANGED <<k_client, k_cycle>>
    /\ KaFrame

KSleep ==
    /\ k_pc = "sleep"
    /\ k_cycle < MaxPolls
    /\ k_cycle' = k_cycle + 1
    /\ k_pc' = "ensure"
    /\ k_reads' = <<>>
    /\ UNCHANGED <<k_client, k_failures>>
    /\ KaFrame

\* Ctrl+C: the loop returns 0 and the finally block closes the client.
KInterrupt ==
    /\ k_pc \in {"ensure", "read_input", "read_holding", "read_energy", "sleep"}
    /\ k_pc' = "stopped"
    /\ k_client' = IF k_client = "none" THEN "none" ELSE "closed"
    /\ UNCHANGED <<k_cycle, k_failures, k_reads>>
    /\ KaFrame

KaInit ==
    /\ k_pc = "connect"
    /\ k_client = "none"
    /\ k_cycle = 0
    /\ k_failures = 0
    /\ k_reads = <<>>

KaNext ==
    \/ \E ok \in BOOLEAN : KConnect(ok)
    \/ KDrop
    \/ \E ok \in BOOLEAN : KEnsure(ok)
    \/ \E res \in ReadResults(RegResponses(InputBank(dev), 0, INPUT_COUNT), INPUT_COUNT) :
          KRead("read_input", "read_holding", res)
    \/ \E res \in ReadResults(RegResponses(HoldingBank(dev), HOLDING_OP_MODE, 3), 3) :
          KRead("read_holding", "read_energy", res)
    \/ \E res \in ReadResults(RegResponses(HoldingBank(dev), HOLDING_ENERGY_STATE, 1), 1) :
          KRead("read_energy", "sleep", res)
    \/ KSleep
    \/ KInterrupt

-----------------------------------------------------------------------------
(* service/main.py: the tasks that write through the one modbus_client *)

\* sync_lg_offset_on_startup and the requests to POST /auto-mode-offset; all
\* of them end in lg_r290_modbus.set_auto_mode_offset(modbus_client, offset).
Tasks == {"sync_lg_offset_on_startup", "set_auto_mode_offset_endpoint"}

\* Offsets asked for: in range and out of range. (In-range negative offsets
\* bring in the register encoding and are not drawn here.)
Offsets == {-6, 0, 2, 6}

IdleTask == [pc |-> "idle", attempt |-> 0, offset |-> 0, result |-> NoResult]

WriteResponses == {[kind |-> "ok"], ErrorResp, TimeoutResp, ExceptionResp}

\* lifespan: modbus_client = await connect_gateway()
LifespanConnect(ok) ==
    /\ api_client = "unset"
    /\ api_client' = IF ok THEN "conn" ELSE "none"
    /\ UNCHANGED <<tk, dev>>
    /\ TaskFrame

\* The task reaches its write. Without a client nothing is sent; an offset
\* outside [-5, 5] is refused before any request.
TStart(t, offset) ==
    /\ api_client # "unset"
    /\ tk[t].pc = "idle"
    /\ tk' = [tk EXCEPT ![t] =
         IF api_client = "none"
         THEN [pc |-> "done", attempt |-> 0, offset |-> offset, result |-> "no client"]
         ELSE IF offset < -5 \/ offset > 5
              THEN [pc |-> "done", attempt |-> 0, offset |-> offset, result |-> FALSE]
              ELSE [pc |-> "pause", attempt |-> 0, offset |-> offset, result |-> NoResult]]
    /\ UNCHANGED <<api_client, dev>>
    /\ TaskFrame

\* After asyncio.sleep(INTER_REQUEST_DELAY) the wrapper is entered and the
\* request of attempt 0 goes out.
TPause(t) ==
    /\ tk[t].pc = "pause"
    /\ tk' = [tk EXCEPT ![t].pc = "await"]
    /\ UNCHANGED <<api_client, dev>>
    /\ TaskFrame

\* The outcome of the request arrives; a write the device accepted is in
\* its register.
TRecv(t, r) ==
    /\ tk[t].pc = "await"
    /\ LET nxt == AfterRequest(OpWrapper, tk[t].attempt, r, 0) IN
        tk' = [tk EXCEPT ![t] =
            IF nxt.pc = "returned"
            THEN [pc |-> "done", attempt |-> nxt.attempt, offset |-> tk[t].offset,
                  result |-> nxt.result # None]
            ELSE [pc |-> "backoff", attempt |-> nxt.attempt, offset |-> tk[t].offset,
                  result |-> NoResult]]
    /\ dev' = IF r.kind = "ok" THEN [dev EXCEPT !.offset = tk[t].offset] ELSE dev
    /\ UNCHANGED api_client
    /\ TaskFrame

\* The backoff sleep is over and the request of the next attempt goes out.
TBackoff(t) ==
    /\ tk[t].pc = "backoff"
    /\ tk' = [tk EXCEPT ![t].pc = "await"]
    /\ UNCHANGED <<api_client, dev>>
    /\ TaskFrame

\* The caller has its answer.
TFinish(t) ==
    /\ tk[t].pc = "done"
    /\ tk' = [tk EXCEPT ![t] = IdleTask]
    /\ UNCHANGED <<api_client, dev>>
    /\ TaskFrame

TaskInit ==
    /\ api_client = "unset"
    /\ tk = [t \in Tasks |-> IdleTask]

TaskNext ==
    \/ \E ok \in BOOLEAN : LifespanConnect(ok)
    \/ \E t \in Tasks, offset \in Offsets : TStart(t, offset)
    \/ \E t \in Tasks : TPause(t)
    \/ \E t \in Tasks, r \in WriteResponses : TRecv(t, r)
    \/ \E t \in Tasks : TBackoff(t)
    \/ \E t \in Tasks : TFinish(t)

-----------------------------------------------------------------------------
(* service/heating_curve.py: HeatingCurveConfig *)

Float(v) == [kind |-> "float", v |-> v]
TypeError == [kind |-> "TypeError"]

\* The curves in the order the dict holds them.
CurveNames == <<"eco", "comfort", "high">>

Point(lo, hi, flow) == [outdoor_min |-> lo, outdoor_max |-> hi, flow_temp |-> flow]

DefaultCurves ==
    [eco |-> [target_temp_range |-> <<0, 210>>,
              curve |-> <<Point(-9990, -100, 460), Point(-100, 0, 430),
                          Point(0, 100, 380), Point(100, 180, 330)>>],
     comfort |-> [target_temp_range |-> <<210, 230>>,
                  curve |-> <<Point(-9990, -100, 480), Point(-100, 0, 450),
                              Point(0, 100, 400), Point(100, 180, 350)>>],
     high |-> [target_temp_range |-> <<230, 9990>>,
               curve |-> <<Point(-9990, -100, 500), Point(-100, 0, 470),
                           Point(0, 100, 420), Point(100, 180, 370)>>]]

DefaultSettings ==
    [outdoor_cutoff_temp |-> 180, outdoor_restart_temp |-> 170,
     update_interval_seconds |-> 600, min_flow_temp |-> 300,
     max_flow_temp |-> 500, adjustment_threshold |-> 20]

\* _get_default_config()
DefaultConfig == [heating_curves |-> DefaultCurves, settings |-> DefaultSettings]

\* A configuration file as test_hysteresis.py describes it: cutoff 16.0,
\* restart 15.0.
HysteresisConfig ==
    [heating_curves |-> DefaultCurves,
     settings |-> [DefaultSettings EXCEPT !.outdoor_cutoff_temp = 160,
                                          !.outdoor_restart_temp = 150]]

\* A configuration whose cutoff lies above the end of its curves and whose
\* flow limits cut into them.
NarrowConfig ==
    [heating_curves |-> DefaultCurves,
     settings |-> [DefaultSettings EXCEPT !.outdoor_cutoff_temp = 200,
                                          !.outdoor_restart_temp = 190,
                                          !.min_flow_temp = 355,
                                          !.max_flow_temp = 420,
                                          !.update_interval_seconds = 60,
                                          !.adjustment_threshold = 10]]

\* A configuration whose eco curve has breakpoints that overlap between -5.0
\* and 0.0 degrees, and whose cutoff lies above the end of its curves.
OverlapConfig ==
    [heating_curves |->
         [DefaultCurves EXCEPT !.eco.curve =
              <<Point(-9990, 0, 430), Point(-50, 100, 380), Point(100, 180, 330)>>],
     settings |-> [DefaultSettings EXCEPT !.outdoor_cutoff_temp = 200,
                                          !.outdoor_restart_temp = 190]]

\* A configuration with all required keys whose restart temperature, 17.0
\* degrees, lies above its cutoff temperature, 15.0 degrees.
InvertedConfig ==
    [heating_curves |-> DefaultCurves,
     settings |-> [DefaultSettings EXCEPT !.outdoor_cutoff_temp = 150,
                                          !.outdoor_restart_temp = 170]]

\* A configuration whose flow limits are no whole degrees: 35.4 and 42.6.
FractionalConfig ==
    [heating_curves |-> DefaultCurves,
     settings |-> [DefaultSettings EXCEPT !.min_flow_temp = 354,
                                          !.max_flow_temp = 426]]

\* A configuration edited by hand: the eco curve ends at 19.0 degrees, so
\* no range holds a target of 20.0, and the cutoff lies at 20.0 degrees,
\* above the last breakpoint of every curve.
GapConfig ==
    [heating_curves |->
         [DefaultCurves EXCEPT !.eco.target_temp_range = <<0, 190>>],
     settings |-> [DefaultSettings EXCEPT !.outdoor_cutoff_temp = 200,
                                          !.outdoor_restart_temp = 190]]

\* A file that parses but lacks the settings.
NoSettingsConfig == [heating_curves |-> DefaultCurves]

\* A file that parses but lacks one of the settings.
NoRestartConfig ==
    [heating_curves |-> DefaultCurves,
     settings |-> [k \in DOMAIN DefaultSettings \ {"outdoor_restart_temp"} |->
                      DefaultSettings[k]]]

FileMissing == [kind |-> "missing"]
FileGarbage == [kind |-> "garbage"]
JsonFile(config) == [kind |-> "json", config |-> config]

ConfigFiles ==
    {FileMissing, FileGarbage, JsonFile(DefaultConfig), JsonFile(HysteresisConfig),
     JsonFile(NarrowConfig), JsonFile(NoSettingsConfig), JsonFile(NoRestartConfig),
     JsonFile(FractionalConfig), JsonFile(GapConfig), JsonFile(OverlapConfig),
     JsonFile(InvertedConfig)}

\* _validate_config: the keys that must be there.
ValidConfig(config) ==
    /\ {"heating_curves", "settings"} \subseteq DOMAIN config
    /\ {"eco", "comfort", "high"} \subseteq DOMAIN config.heating_curves
    /\ {"outdoor_cutoff_temp", "outdoor_restart_temp", "update_interval_seconds",
        "min_flow_temp", "max_flow_temp", "adjustment_threshold"}
           \subseteq DOMAIN config.settings

\* load_config: FileNotFoundError, JSONDecodeError and the ValueError of
\* _validate_config all end in _get_default_config(). (`active` is self.config,
\* which load_config does not read.)
load_config(file, active) ==
    IF file.kind = "missing" THEN DefaultConfig
    ELSE IF file.kind = "garbage" THEN DefaultConfig
    ELSE IF ~ValidConfig(file.config) THEN DefaultConfig
    ELSE file.config

\* Mutant of Matches: the upper end of a range does not belong to it.
MatchesHalfOpen(config, name, target_room_temp) ==
    LET range == config.heating_curves[name].target_temp_range
    IN  range[1] <= target_room_temp /\ target_room_temp < range[2]

\* _select_heating_curve: the first curve whose range holds the target.
Matches(config, name, target_room_temp) ==
    LET range == config.heating_curves[name].target_temp_range
    IN  range[1] <= target_room_temp /\ target_room_temp <= range[2]

select_heating_curve(config, target_room_temp) ==
    LET hits == {i \in DOMAIN CurveNames :
                    Matches(config, CurveNames[i], target_room_temp)}
    IN  IF hits = {} THEN None
        ELSE config.heating_curves[
                 CurveNames[CHOOSE i \in hits : \A j \in hits : i <= j]]

\* Mutant of find_flow_temp_from_curve: outdoor_max belongs to the interval.
find_flow_temp_from_curve_closed(curve, outdoor_temp) ==
    LET hits == {i \in DOMAIN curve :
                    /\ curve[i].outdoor_min <= outdoor_temp
                    /\ outdoor_temp <= curve[i].outdoor_max}
    IN  IF hits = {} THEN None
        ELSE Float(curve[CHOOSE i \in hits : \A j \in hits : i <= j].flow_temp)

\* _find_flow_temp_from_curve: the first point with min <= outdoor < max.
find_flow_temp_from_curve(curve, outdoor_temp) ==
    LET hits == {i \in DOMAIN curve :
                    /\ curve[i].outdoor_min <= outdoor_temp
                    /\ outdoor_temp < curve[i].outdoor_max}
    IN  IF hits = {} THEN None
        ELSE Float(curve[CHOOSE i \in hits : \A j \in hits : i <= j].flow_temp)

Max(a, b) == IF a >= b THEN a ELSE b
Min(a, b) == IF a <= b THEN a ELSE b

\* round(x) for x in tenths: to the nearest whole degree, halves to the even
\* one.
Round(v) ==
    LET q == v \div 10
        r == v % 10
    IN  IF r < 5 THEN q * 10
        ELSE IF r > 5 THEN (q + 1) * 10
        ELSE IF q % 2 = 0 THEN q * 10 ELSE (q + 1) * 10

\* Mutant of CutOff: the cutoff temperature itself still heats.
CutOffAbove(config, outdoor_temp) ==
    outdoor_temp > config.settings.outdoor_cutoff_temp

\* The test of calculate_flow_temp against the cutoff temperature.
CutOff(config, outdoor_temp) ==
    outdoor_temp >= config.settings.outdoor_cutoff_temp

\* calculate_flow_temp(self, outdoor_temp, target_room_temp), called with the
\* positional arguments `args`: a call with another number of arguments
\* raises TypeError before the body runs.
calculate_flow_temp(config, args) ==
    IF Len(args) # 2 THEN TypeError
    ELSE LET outdoor_temp == args[1]
             target_room_temp == args[2]
             settings == config.settings
             selected_curve == select_heating_curve(config, target_room_temp)
         IN  IF CutOff(config, outdoor_temp) THEN None
             ELSE IF selected_curve = None THEN None
             ELSE LET flow_temp ==
                          find_flow_temp_from_curve(selected_curve.curve, outdoor_temp)
                  IN  IF flow_temp = None THEN None
                      ELSE Float(Round(Max(settings.min_flow_temp,
                                           Min(settings.max_flow_temp, flow_temp.v))))

\* Outdoor and target room temperatures the calculation is asked about.
Outdoors == {-120, -20, 50, 100, 140, 150, 155, 159, 160, 165, 170, 175, 180, 190, 200}
RoomTargets == {200, 210, 220, 230, 240}

\* The lookups calculate_flow_temp makes below the cutoff: the curve
\* _select_heating_curve returns and, for a curve, what
\* _find_flow_temp_from_curve returns.
NoLookup == [curve |-> NoResult, flow |-> NoResult]

Lookups(config, outdoor_temp, target_room_temp) ==
    IF CutOff(config, outdoor_temp) THEN NoLookup
    ELSE LET selected_curve == select_heating_curve(config, target_room_temp)
         IN  [curve |-> selected_curve,
              flow |-> IF selected_curve = None THEN NoResult
                       ELSE find_flow_temp_from_curve(selected_curve.curve, outdoor_temp)]

NoCall == [called |-> FALSE, was_on |-> FALSE, on |-> FALSE, outdoor |-> 0,
           target |-> 0, result |-> NoResult, reload |-> NoResult,
           lookups |-> NoLookup]

\* The calculation is asked once more, as a tick of the controller asks it,
\* in the power state the last answer led to: a flow temperature means the
\* heat pump is to run, None means it is to be off.
HyTick(outdoor_temp, target_room_temp) ==
    /\ LET result == calculate_flow_temp(hc_config, <<outdoor_temp, target_room_temp>>)
       IN  hy' = [called |-> TRUE, was_on |-> hy.on, on |-> result.kind = "float",
                  outdoor |-> outdoor_temp, target |-> target_room_temp,
                  result |-> result, reload |-> NoResult,
                  lookups |-> Lookups(hc_config, outdoor_temp, target_room_temp)]
    /\ UNCHANGED <<hc_file, hc_config, ac>>
    /\ CurveFrame

\* Somebody edits, breaks or removes heating_curve_config.json.
ConfigFileWrite(file) ==
    /\ hc_file # file
    /\ hc_file' = file
    /\ UNCHANGED <<hc_config, hy, ac>>
    /\ CurveFrame

\* AdaptiveController.reload_config: HeatingCurveConfig.reload_config replaces
\* self.config by what load_config returns, then the controller takes its
\* interval and threshold from the settings now active.
reload_config ==
    /\ hc_config' = load_config(hc_file, hc_config)
    /\ hy' = [NoCall EXCEPT !.on = hy.on,
                            !.reload = [kind |-> "reload", file |-> hc_file,
                                        old |-> hc_config]]
    /\ ac' = [ac EXCEPT
                 !.update_interval = hc_config'.settings.update_interval_seconds,
                 !.adjustment_threshold = hc_config'.settings.adjustment_threshold]
    /\ UNCHANGED hc_file
    /\ CurveFrame

\* HeatingCurveConfig("heating_curve_config.json") where no such file exists.
CurveInit ==
    /\ hc_file = FileMissing
    /\ hc_config = load_config(FileMissing, DefaultConfig)
    /\ hy = NoCall

CurveNext ==
    \/ \E o \in Outdoors, t \in RoomTargets : HyTick(o, t)
    \/ \E file \in ConfigFiles : ConfigFileWrite(file)
    \/ reload_config

-----------------------------------------------------------------------------
(* service/adaptive_controller.py: AdaptiveController *)

\* Ticks the control loop makes.
MaxTicks == 3

\* The configuration files written while the controller runs.
CtlConfigFiles == {JsonFile(DefaultConfig), JsonFile(GapConfig)}

\* What a tick finds: the thermostat's target, status.json, and the sources
\* of the outdoor temperature.
CtlTargets == {200, 220}
StatusMissing == [kind |-> "missing"]
StatusGarbage == [kind |-> "garbage"]
StatusData(power_state, target_temp) ==
    [kind |-> "status", power_state |-> power_state, target_temp |-> target_temp]
StatusFiles ==
    {StatusMissing, StatusGarbage}
        \cup {StatusData(p, t) : p \in {"ON", "OFF"}, t \in {300, 395, 400}}

Unavailable == [kind |-> "unavailable"]

\* What the thermostat service answers when asked for its status: nothing
\* (an HTTP error or a timeout), a status without all_temps.temp_outdoor, or
\* the reading of the external sensor.
ThermostatOutdoors ==
    {Unavailable, None, Float(0), Float(50), Float(155), Float(180), Float(190)}

\* What status.json has for outdoor_temp: no file, a file that does not
\* parse, no such key, or the device's value.
CachedOutdoors == {StatusMissing, StatusGarbage, None, Float(0), Float(-50)}

NoSources == [thermostat |-> NoResult, cached |-> NoResult]

Write(op, value, enabled) == [op |-> op, value |-> value, enabled |-> enabled]
Abs(x) == IF x < 0 THEN -x ELSE x

Outcome(outcome, writes) == [outcome |-> outcome, writes |-> writes]

\* Mutant of get_outdoor_temperature: a reading of zero from the external
\* sensor counts as no reading.
get_outdoor_temperature_zero_is_none(thermostat, cached) ==
    IF thermostat.kind = "float" /\ thermostat.v # 0 THEN thermostat
    ELSE IF cached.kind = "float" /\ cached.v # 0 THEN cached
    ELSE None

\* _get_outdoor_temperature: the reading of the thermostat service if there
\* is one; otherwise outdoor_temp of status.json unless it is absent or 0.0;
\* otherwise None (a file that does not parse ends in the handler).
get_outdoor_temperature(thermostat, cached) ==
    IF thermostat.kind = "float" THEN thermostat
    ELSE IF cached.kind = "float" /\ cached.v # 0 THEN cached
    ELSE None

\* Mutant of adjust: the setpoint is written whenever there is a flow
\* temperature, whatever the difference.
adjust_without_threshold(config, status, outdoor_temp, target_room_temp, enabled, threshold) ==
    LET flow == calculate_flow_temp(config, <<outdoor_temp, target_room_temp>>)
    IN  IF flow = None THEN Outcome("off", <<>>)
        ELSE Outcome("adjusted", <<Write("set_target_temperature", flow.v, enabled)>>)

\* Mutant of adjust: the writes go out above the threshold without a look at
\* the enabled flag.
adjust_without_recheck(config, status, outdoor_temp, target_room_temp, enabled, threshold) ==
    LET flow == calculate_flow_temp(config, <<outdoor_temp, target_room_temp>>)
    IN  IF flow = None THEN Outcome("off", <<>>)
        ELSE IF Abs(status.target_temp - flow.v) >= threshold
        THEN Outcome("adjusted",
                     (IF status.power_state = "ON" THEN <<>>
                      ELSE <<Write("set_power", TRUE, enabled)>>)
                        \o <<Write("set_target_temperature", flow.v, enabled)>>)
        ELSE Outcome("no_adjustment", <<>>)

\* Mutant of adjust: the calculation is called as it is declared and the
\* power write of the branch for None is sent.
adjust_power_off_on_none(config, status, outdoor_temp, target_room_temp, enabled, threshold) ==
    LET flow == calculate_flow_temp(config, <<outdoor_temp, target_room_temp>>)
    IN  IF flow = None
        THEN Outcome("off", IF status.power_state = "ON" /\ enabled
                            THEN <<Write("set_power", FALSE, enabled)>>
                            ELSE <<>>)
        ELSE Outcome("no_adjustment", <<>>)

\* _adjust_flow_temperature from the status read on: the calculation is
\* called with three arguments, and the TypeError ends the tick in the
\* handler at its end. The branches behind the call issue no write either:
\* set_power and set_target_temperature are commented out in each of them,
\* so the enabled flag tested before them decides nothing.
adjust(config, status, outdoor_temp, target_room_temp, enabled, threshold) ==
    LET current_power == status.power_state = "ON"
        current_setpoint == status.target_temp
        optimal_flow_temp ==
            calculate_flow_temp(config, <<outdoor_temp, target_room_temp, current_power>>)
    IN  IF optimal_flow_temp = TypeError THEN Outcome("error", <<>>)
        ELSE IF optimal_flow_temp = None THEN Outcome("off", <<>>)
        ELSE IF Abs(current_setpoint - optimal_flow_temp.v) >= threshold
        THEN Outcome("read_only", <<>>)
        ELSE Outcome("no_adjustment", <<>>)

\* Mutant of after_tick: an error in a tick ends the loop.
after_tick_raising(outcome) == IF outcome = "error" THEN "stopped" ELSE "sleep"

\* _control_loop after _adjust_flow_temperature: the tick has caught its
\* exceptions itself, and the loop goes to sleep.
after_tick(outcome) == "sleep"

CtlInit ==
    ac = [pc |-> "idle", enabled |-> TRUE, update_interval |-> 60,
          adjustment_threshold |-> 10, outdoor |-> NoResult, target |-> 0,
          status |-> NoResult, outcome |-> "none", writes |-> <<>>,
          disabled |-> FALSE, ticks |-> 0, errors |-> 0, cancelled |-> FALSE,
          used |-> [config |-> DefaultConfig, threshold |-> 10],
          sources |-> NoSources]

\* while True: a disabled controller sleeps; an enabled one enters
\* _adjust_flow_temperature, which finds the flag still set.
AcTickStart ==
    /\ ac.pc = "idle"
    /\ ac.ticks < MaxTicks
    /\ ac' = [ac EXCEPT !.pc = IF ac.enabled THEN "get_outdoor" ELSE "sleep",
                        !.outdoor = NoResult, !.target = 0, !.status = NoResult,
                        !.outcome = IF ac.enabled THEN "none" ELSE "skipped",
                        !.writes = <<>>, !.disabled = ~ac.enabled,
                        !.ticks = @ + 1]
    /\ UNCHANGED hc_config
    /\ CtlFrame

\* await self._get_outdoor_temperature()
AcGetOutdoor(thermostat, cached) ==
    /\ ac.pc = "get_outdoor"
    /\ ac' = [ac EXCEPT !.pc = "get_target",
                        !.outdoor = get_outdoor_temperature(thermostat, cached),
                        !.sources = [thermostat |-> thermostat, cached |-> cached]]
    /\ UNCHANGED hc_config
    /\ CtlFrame

\* await self._get_target_room_temperature(), and the rest of the tick.
AcAdjust(target_room_temp, status) ==
    /\ ac.pc = "get_target"
    /\ LET done ==
               IF ac.outdoor = None THEN Outcome("no_temps", <<>>)
               ELSE IF status = StatusMissing THEN Outcome("no_status", <<>>)
               ELSE IF status = StatusGarbage THEN Outcome("error", <<>>)
               ELSE adjust(hc_config, status, ac.outdoor.v, target_room_temp,
                           ac.enabled, ac.adjustment_threshold)
       IN  ac' = [ac EXCEPT !.pc = after_tick(done.outcome),
                            !.target = target_room_temp,
                            !.status = IF ac.outdoor = None THEN NoResult ELSE status,
                            !.outcome = done.outcome,
                            !.writes = done.writes,
                            !.errors = IF done.outcome = "error" THEN @ + 1 ELSE @,
                            !.used = [config |-> hc_config,
                                      threshold |-> ac.adjustment_threshold],
                            !.sources = NoSources]
    /\ UNCHANGED hc_config
    /\ CtlFrame

\* await asyncio.sleep(self.update_interval) is over.
AcSleep ==
    /\ ac.pc = "sleep"
    /\ ac' = [ac EXCEPT !.pc = "idle"]
    /\ UNCHANGED hc_config
    /\ CtlFrame

\* The API sets or clears self.enabled while the loop waits.
AcSetEnabled(enabled) ==
    /\ ac.pc \in {"get_outdoor", "get_target", "sleep"}
    /\ ac.enabled # enabled
    /\ ac' = [ac EXCEPT !.enabled = enabled,
                        !.disabled = @ \/ (~enabled /\ ac.pc # "sleep")]
    /\ UNCHANGED hc_config
    /\ CtlFrame

\* stop(): the task is cancelled where it waits, CancelledError passes the
\* tick's handler and breaks the loop.
AcCancel ==
    /\ ac.pc \in {"get_outdoor", "get_target", "sleep"}
    /\ ac' = [ac EXCEPT !.pc = "stopped", !.cancelled = TRUE]
    /\ UNCHANGED hc_config
    /\ CtlFrame

CtlNext ==
    \/ AcTickStart
    \/ \E thermostat \in ThermostatOutdoors, cached \in CachedOutdoors :
           AcGetOutdoor(thermostat, cached)
    \/ \E t \in CtlTargets, status \in StatusFiles : AcAdjust(t, status)
    \/ AcSleep
    \/ \E b \in BOOLEAN : AcSetEnabled(b)
    \/ AcCancel
    \/ \E file \in CtlConfigFiles : ConfigFileWrite(file)
    \/ reload_config

-----------------------------------------------------------------------------
(* The setters of the target temperature and of the auto-mode offset:
   lg_r290_modbus.py and service/modbus_client.py *)

\* Values the setters are called with: temperatures in tenths of a degree
\* (whole degrees, for which int(temp * 10) is exact), offsets in Kelvin.
SetTemps == {150, 200, 350, 600, 700}
SetOffsets == {-6, -5, 0, 5, 6}

\* What comes of one write request: the device carries it out, the device
\* answers with an error response (result.isError()), or no answer comes
\* (asyncio.TimeoutError, or an exception of the connection).
WriteOutcomes == {"ok", "error", "timeout"}

\* Why a call failed.
CauseOf(outcome) == IF outcome = "error" THEN "device" ELSE "transport"

NoSetterCall ==
    [pc |-> "idle", impl |-> "none", op |-> "none", value |-> 0, register |-> 0,
     attempt |-> 0, requests |-> 0, result |-> NoResult,
     before |-> [power |-> TRUE, target |-> 350, offset |-> 0],
     http |-> 0, cause |-> "none",
     prev |-> [impl |-> "none", op |-> "none",
               signal |-> [result |-> FALSE, http |-> 0], cause |-> "none"]]

\* What the caller of the last call holds in hand: the value returned and,
\* for an endpoint, the status code of the response.
Signal(call) == [result |-> call.result, http |-> call.http]

\* The failed call before this one, with what its caller got and why it
\* failed.
LastFailed ==
    IF sw.cause = "none" THEN sw.prev
    ELSE [impl |-> sw.impl, op |-> sw.op, signal |-> Signal(sw), cause |-> sw.cause]

\* A call that returns False at once, for `cause`; an endpoint answers with
\* the status code `http`.
Refused(impl, op, value, cause, http) ==
    [NoSetterCall EXCEPT !.impl = impl, !.op = op, !.value = value,
                         !.result = FALSE, !.before = dev,
                         !.http = http, !.cause = cause, !.prev = LastFailed]

\* A call that goes on to write `value` to `register`.
Requesting(impl, op, value, register) ==
    [NoSetterCall EXCEPT !.pc = "request", !.impl = impl, !.op = op,
                         !.value = value, !.register = register, !.before = dev,
                         !.prev = LastFailed]

\* lg_r290_modbus.set_target_temperature(client, temp)
lg_set_target_temperature(temp) ==
    /\ sw.pc = "idle"
    /\ sw' = IF temp < 200 \/ temp > 600
             THEN Refused("lg_r290_modbus", "set_target_temperature", temp,
                          "validation", 0)
             ELSE Requesting("lg_r290_modbus", "set_target_temperature", temp,
                             HOLDING_TARGET_TEMP)
    /\ UNCHANGED dev
    /\ SetFrame

\* lg_r290_modbus.set_auto_mode_offset(client, offset)
lg_set_auto_mode_offset(offset) ==
    /\ sw.pc = "idle"
    /\ sw' = IF offset < -5 \/ offset > 5
             THEN Refused("lg_r290_modbus", "set_auto_mode_offset", offset,
                          "validation", 0)
             ELSE Requesting("lg_r290_modbus", "set_auto_mode_offset", offset,
                             HOLDING_AUTO_MODE_OFFSET)
    /\ UNCHANGED dev
    /\ SetFrame

\* HeatPumpModbusClient.set_target_temperature(temperature): a client that is
\* not connected answers False, a connected one writes int(temperature * 10).
client_set_target_temperature(temperature, is_connected) ==
    /\ sw.pc = "idle"
    /\ sw' = IF ~is_connected
             THEN Refused("HeatPumpModbusClient", "set_target_temperature",
                          temperature, "transport", 0)
             ELSE Requesting("HeatPumpModbusClient", "set_target_temperature",
                             temperature, HOLDING_TARGET_TEMP)
    /\ UNCHANGED dev
    /\ SetFrame

\* POST /auto-mode-offset of the service: 503 without a client, 400 for an
\* offset outside -5 .. 5, otherwise lg_r290_modbus.set_auto_mode_offset.
set_auto_mode_offset_endpoint(offset, has_client) ==
    /\ sw.pc = "idle"
    /\ sw' = IF ~has_client
             THEN Refused("heatpump_api", "set_auto_mode_offset", offset,
                          "transport", 503)
             ELSE IF ~(-5 <= offset /\ offset <= 5)
             THEN Refused("heatpump_api", "set_auto_mode_offset", offset,
                          "validation", 400)
             ELSE Requesting("heatpump_api", "set_auto_mode_offset", offset,
                             HOLDING_AUTO_MODE_OFFSET)
    /\ UNCHANGED dev
    /\ SetFrame

\* The register write goes out and is answered. lg_r290_modbus, and the
\* endpoint through it, send it through modbus_operation_with_retry;
\* HeatPumpModbusClient sends it once. The endpoint answers 200 with the
\* offset for True and 500 for False.
SetRequest(outcome) ==
    /\ sw.pc = "request"
    /\ LET attempts == IF sw.impl = "HeatPumpModbusClient" THEN 1 ELSE MAX_RETRIES
           last == sw.attempt + 1 >= attempts
       IN  sw' = [sw EXCEPT
                    !.requests = @ + 1,
                    !.attempt = @ + 1,
                    !.pc = IF outcome = "ok" \/ last THEN "idle" ELSE "request",
                    !.result = IF outcome = "ok" THEN TRUE
                               ELSE IF last THEN FALSE ELSE @,
                    !.http = IF sw.impl # "heatpump_api" THEN 0
                             ELSE IF outcome = "ok" THEN 200
                             ELSE IF last THEN 500 ELSE @,
                    !.cause = IF outcome # "ok" /\ last THEN CauseOf(outcome)
                              ELSE "none"]
    /\ dev' = IF outcome # "ok" THEN dev
              ELSE IF sw.register = HOLDING_TARGET_TEMP
              THEN [dev EXCEPT !.target = sw.value]
              ELSE [dev EXCEPT !.offset = sw.value]
    /\ SetFrame

SetInit == sw = NoSetterCall

SetNext ==
    \/ \E temp \in SetTemps : lg_set_target_temperature(temp)
    \/ \E offset \in SetOffsets : lg_set_auto_mode_offset(offset)
    \/ \E temp \in SetTemps, c \in BOOLEAN : client_set_target_temperature(temp, c)
    \/ \E offset \in SetOffsets, c \in BOOLEAN : set_auto_mode_offset_endpoint(offset, c)
    \/ \E outcome \in WriteOutcomes : SetRequest(outcome)


-----------------------------------------------------------------------------
(* Temperatures and register values *)

\* Temperatures handed to set_target_temperature, in hundredths of a degree:
\* 19.90, 19.95, 20.00, ... and 59.00, 59.05, ..., so that values with one
\* decimal place and values between them occur on both sides of the limits.
EncodeTemps == {1990 + 5 * k : k \in 0..60} \cup {5900 + 5 * k : k \in 0..24}

\* Raw register values to decode: 16-bit words on both sides of 32767.
RawValues == {0, 1, 200, 350, 600, 32767, 32768, 65036, 65486, 65535}

\* int(x) of a quotient: towards zero.
Trunc(a, b) == IF a >= 0 THEN a \div b ELSE -((-a) \div b)

\* temp_value = int(temp * 10), temp in hundredths of a degree.
encode_temperature(temp) == Trunc(temp, 10)

\* regs[...] / 10.0: the raw value taken as it is, in tenths of a degree.
raw_over_ten(value) == value

Decoders == {"read_all_registers", "keep_alive.read_status", "HeatPumpModbusClient"}

\* The decoding each builder of a status applies to a temperature register.
Decode(impl, value) ==
    IF impl = "read_all_registers" THEN decode_temperature(value)
    ELSE raw_over_ten(value)

NoConversion == [op |-> "none", impl |-> "none", input |-> 0, raw |-> 0, out |-> 0]

\* set_target_temperature(client, temp) followed by a poll: the value goes
\* into register 40003 as int(temp * 10) and comes back through
\* read_all_registers and decode_temperature. Values outside 20.0 .. 60.0 are
\* refused and never encoded.
EncodeDecode(temp) ==
    /\ cv' = IF temp < 2000 \/ temp > 6000
             THEN [NoConversion EXCEPT !.op = "refused", !.input = temp]
             ELSE [op |-> "roundtrip", impl |-> "read_all_registers", input |-> temp,
                   raw |-> encode_temperature(temp),
                   out |-> Decode("read_all_registers", encode_temperature(temp))]
    /\ ConvFrame

\* A status is built from a temperature register holding `value`.
DecodeRegister(impl, value) ==
    /\ cv' = [op |-> "decode", impl |-> impl, input |-> 0, raw |-> value,
              out |-> Decode(impl, value)]
    /\ ConvFrame

\* Offsets handed to set_auto_mode_offset, in Kelvin.
ConvOffsets == -6..6

\* Words register 40005 holds when a poll reads it: offsets of 0 .. 5 K and
\* the 16-bit images of -1 .. -5 K.
OffsetWords == {0, 2, 5, 65531, 65534, 65535}

\* 'auto_mode_offset': holding_regs[HOLDING_AUTO_MODE_OFFSET], the word as
\* it is.
publish_offset(value) == value

\* set_auto_mode_offset(client, offset) followed by a poll. An offset outside
\* -5 .. 5 is refused. write_register is handed the offset as it is: for a
\* negative one the client library either packs the 16-bit image (`packs`)
\* or raises on every attempt, and then the setter returns False and the
\* register keeps its word, 0. The poll publishes the word it reads.
SetOffsetThenPoll(offset, packs) ==
    /\ offset < 0 \/ packs
    /\ cv' = IF offset < -5 \/ offset > 5
             THEN [NoConversion EXCEPT !.op = "refused", !.input = offset]
             ELSE IF offset < 0 /\ ~packs
             THEN [op |-> "offset_failed", impl |-> "read_all_registers",
                   input |-> offset, raw |-> 0, out |-> publish_offset(0)]
             ELSE [op |-> "offset_roundtrip", impl |-> "read_all_registers",
                   input |-> offset, raw |-> offset % 65536,
                   out |-> publish_offset(offset % 65536)]
    /\ ConvFrame

\* A poll publishes register 40005 holding `value`.
PollOffset(value) ==
    /\ cv' = [op |-> "offset_published", impl |-> "read_all_registers",
              input |-> 0, raw |-> value, out |-> publish_offset(value)]
    /\ ConvFrame

ConvInit == cv = NoConversion

ConvNext ==
    \/ \E temp \in EncodeTemps : EncodeDecode(temp)
    \/ \E impl \in Decoders, value \in RawValues : DecodeRegister(impl, value)
    \/ \E offset \in ConvOffsets, packs \in BOOLEAN : SetOffsetThenPoll(offset, packs)
    \/ \E value \in OffsetWords : PollOffset(value)

-----------------------------------------------------------------------------
(* service/scheduler.py: apply_schedule_action *)

ThermostatModes == {"AUTO", "ON", "ECO", "OFF"}

Offset(v) == [kind |-> "int", v |-> v]

Bool(v) == [kind |-> "bool", v |-> v]

\* The actions of a schedule: a target room temperature and an offset for
\* the device's auto mode, which an entry may leave out.
ScheduleActions ==
    [target_temp : {200, 220}, auto_offset : {None, Offset(-2), Offset(2)}]

\* What GET /api/v1/thermostat/config answers: an error, the configuration,
\* or a configuration without a mode.
ConfigReplies == {"error", "config", "nomode"}

\* current_config.get('mode', 'OFF')
current_mode_of(reply, mode) == IF reply = "nomode" THEN "OFF" ELSE mode

\* action.get('auto_offset', 0)
auto_offset_of(action) ==
    IF action.auto_offset = None THEN 0 ELSE action.auto_offset.v

ScheduleAppliesUnlessOff(current_mode) == current_mode # "OFF"

\* not (current_mode not in ['AUTO', 'ON'])
ScheduleApplies(current_mode) == current_mode \in {"AUTO", "ON"}

\* The clock of the scheduler's host, in seconds since midnight, advances in
\* steps of ClockStep up to MaxClock; the run loop sleeps SleepSeconds.
ClockStep == 10

MaxClock == 180

SleepSeconds == 60

\* (now.hour, now.minute), as the number of the minute within the day.
Minute(clock) == clock \div 60

\* The periods of the loaded schedule of the current day, by the minute of
\* their HH:MM; a period may leave the offset out.
Periods ==
    << [time |-> 1, target_temp |-> 220, auto_offset |-> Offset(2)],
       [time |-> 2, target_temp |-> 200, auto_offset |-> None] >>

\* get_current_schedule_action with the scheduler enabled: the first period
\* whose time is the current HH:MM, with period.get('auto_offset', 0).
get_current_schedule_action(clock) ==
    LET hits == {i \in 1..Len(Periods) : Periods[i].time = Minute(clock)} IN
    IF hits = {} THEN None
    ELSE LET i == CHOOSE j \in hits : \A k \in hits : j <= k IN
         [target_temp |-> Periods[i].target_temp,
          auto_offset |-> Offset(auto_offset_of(Periods[i])),
          time |-> Periods[i].time]

NoCheck == [minute |-> -1, before |-> -1, lookup |-> FALSE]

SchedInit ==
    sc = [pc |-> "idle", action |-> None, mode |-> "none", requests |-> <<>>,
          result |-> NoResult, thermo_mode |-> "AUTO", thermo_target |-> 210,
          offset |-> 0, clock |-> 0, wake |-> 0, last_check_minute |-> -1,
          call |-> NoCheck, checked |-> <<>>, triggered |-> <<>>]

\* The user sets the thermostat's mode through the thermostat service.
ThermostatSetMode(mode) ==
    /\ mode # sc.thermo_mode
    /\ sc' = [sc EXCEPT !.thermo_mode = mode]
    /\ SchedFrame

\* apply_schedule_action(action) is called.
SchedStart(action) ==
    /\ sc.pc = "idle"
    /\ sc' = [sc EXCEPT !.pc = "get", !.action = action, !.mode = "none",
                        !.requests = <<>>, !.result = NoResult]
    /\ SchedFrame

\* Steps 1 and 2: the configuration is fetched and its mode looked at.
SchedGetConfig(reply) ==
    /\ sc.pc = "get"
    /\ LET requests == Append(sc.requests, "GET thermostat/config")
           current_mode == current_mode_of(reply, sc.thermo_mode) IN
       sc' = IF reply = "error"
             THEN [sc EXCEPT !.pc = "done", !.requests = requests,
                             !.result = Bool(FALSE)]
             ELSE IF ScheduleApplies(current_mode)
             THEN [sc EXCEPT !.pc = "post_config", !.requests = requests,
                             !.mode = current_mode]
             ELSE [sc EXCEPT !.pc = "done", !.requests = requests,
                             !.mode = current_mode, !.result = Bool(FALSE)]
    /\ SchedFrame

\* Steps 3 and 4: the new configuration, mode AUTO and the scheduled target.
SchedPostConfig(ok) ==
    /\ sc.pc = "post_config"
    /\ LET requests == Append(sc.requests, "POST thermostat/config") IN
       sc' = IF ok
             THEN [sc EXCEPT !.pc = "post_offset", !.requests = requests,
                             !.thermo_mode = "AUTO",
                             !.thermo_target = sc.action.target_temp]
             ELSE [sc EXCEPT !.pc = "done", !.requests = requests,
                             !.result = Bool(FALSE)]
    /\ SchedFrame

\* Step 5: the offset goes to the heat pump service.
SchedPostOffset(ok) ==
    /\ sc.pc = "post_offset"
    /\ LET requests == Append(sc.requests, "POST auto-mode-offset") IN
       sc' = IF ok
             THEN [sc EXCEPT !.pc = "done", !.requests = requests,
                             !.offset = auto_offset_of(sc.action),
                             !.result = Bool(TRUE)]
             ELSE [sc EXCEPT !.pc = "done", !.requests = requests,
                             !.result = Bool(FALSE)]
    /\ SchedFrame

\* The call has returned; the scheduler waits for the next entry.
SchedReturn ==
    /\ sc.pc = "done"
    /\ sc' = [sc EXCEPT !.pc = "idle"]
    /\ SchedFrame

\* The host's clock passes a multiple of ClockStep.
SchedTick ==
    /\ sc.clock + ClockStep <= MaxClock
    /\ sc' = [sc EXCEPT !.clock = sc.clock + ClockStep]
    /\ SchedFrame

\* if current_minute == self.last_check_minute: return
SkipsCheck(current_minute, last_check_minute) ==
    current_minute = last_check_minute

\* check_and_apply up to its call of get_current_schedule_action: the clock
\* is read, and a minute already checked ends the call.
CheckAndApply ==
    LET current_minute == Minute(sc.clock) IN
    IF SkipsCheck(current_minute, sc.last_check_minute)
    THEN [sc EXCEPT !.pc = "done", !.requests = <<>>, !.result = NoResult,
                    !.mode = "none",
                    !.call = [minute |-> current_minute,
                              before |-> sc.last_check_minute,
                              lookup |-> FALSE]]
    ELSE [sc EXCEPT !.pc = "lookup", !.requests = <<>>, !.result = NoResult,
                    !.mode = "none",
                    !.last_check_minute = current_minute,
                    !.checked = Append(sc.checked, current_minute),
                    !.call = [minute |-> current_minute,
                              before |-> sc.last_check_minute,
                              lookup |-> TRUE]]

\* check_and_apply is called.
SchedCheck ==
    /\ sc.pc = "idle"
    /\ sc' = CheckAndApply
    /\ SchedFrame

\* get_current_schedule_action reads the clock again; a period that matches
\* goes to apply_schedule_action.
SchedLookup ==
    /\ sc.pc = "lookup"
    /\ LET action == get_current_schedule_action(sc.clock) IN
       sc' = IF action = None
             THEN [sc EXCEPT !.pc = "done"]
             ELSE [sc EXCEPT !.pc = "get",
                             !.action = [target_temp |-> action.target_temp,
                                         auto_offset |-> action.auto_offset],
                             !.triggered = Append(sc.triggered, action.time)]
    /\ SchedFrame

\* run: the first check, and each later one once the sleep is over.
RunCheck ==
    /\ \/ sc.pc = "idle"
       \/ sc.pc = "sleep" /\ sc.clock >= sc.wake
    /\ sc' = CheckAndApply
    /\ SchedFrame

\* run: await asyncio.sleep(60) after the check.
RunSleep ==
    /\ sc.pc = "done"
    /\ sc' = [sc EXCEPT !.pc = "sleep", !.wake = sc.clock + SleepSeconds]
    /\ SchedFrame

\* check_and_apply called at any time by any caller.
CheckNext ==
    \/ SchedTick
    \/ SchedCheck
    \/ SchedLookup
    \/ \E reply \in ConfigReplies : SchedGetConfig(reply)
    \/ \E ok \in BOOLEAN : SchedPostConfig(ok)
    \/ \E ok \in BOOLEAN : SchedPostOffset(ok)
    \/ SchedReturn

\* The run loop as the only caller of check_and_apply.
RunNext ==
    \/ SchedTick
    \/ RunCheck
    \/ SchedLookup
    \/ \E reply \in ConfigReplies : SchedGetConfig(reply)
    \/ \E ok \in BOOLEAN : SchedPostConfig(ok)
    \/ \E ok \in BOOLEAN : SchedPostOffset(ok)
    \/ RunSleep

SchedNext ==
    \/ \E mode \in ThermostatModes : ThermostatSetMode(mode)
    \/ \E action \in ScheduleActions : SchedStart(action)
    \/ \E reply \in ConfigReplies : SchedGetConfig(reply)
    \/ \E ok \in BOOLEAN : SchedPostConfig(ok)
    \/ \E ok \in BOOLEAN : SchedPostOffset(ok)
    \/ SchedReturn

-----------------------------------------------------------------------------
(* service/modbus_client.py: HeatPumpModbusClient, the power state it caches *)

PowerValues == {"ON", "OFF"}

\* What the device makes of a request: it carries it out and answers, it
\* answers with an error response, or the answer never comes and the call
\* ends in an exception.
CoilOutcomes == {"ok", "error", "exception"}

ClientInit ==
    hp = [coil |-> "OFF", cached |-> "unset", wire |-> <<>>, back |-> <<>>,
          poll |-> "idle", set_power |-> "idle", power_on |-> "OFF",
          returned |-> "none"]

\* _update_cached_data under self._lock: read_coils goes out.
HpPollSend ==
    /\ hp.poll = "idle"
    /\ hp' = [hp EXCEPT !.poll = "read_coils",
                        !.wire = Append(@, [op |-> "read_coils", value |-> "OFF"])]
    /\ ClientFrame

\* set_power(power_on): write_coil goes out, without self._lock, whatever
\* the poll is doing.
HpSetPowerSend(power_on) ==
    /\ hp.set_power = "idle"
    /\ hp' = [hp EXCEPT !.set_power = "write_coil", !.power_on = power_on,
                        !.returned = "none",
                        !.wire = Append(@, [op |-> "write_coil", value |-> power_on])]
    /\ ClientFrame

\* The gateway takes the requests of the connection in the order they were
\* sent: a read samples the coil, a write that is carried out sets it.
HpDevice(outcome) ==
    /\ hp.wire # <<>>
    /\ LET req == Head(hp.wire) IN
       hp' = [hp EXCEPT
                !.wire = Tail(@),
                !.coil = IF req.op = "write_coil" /\ outcome = "ok"
                         THEN req.value ELSE @,
                !.back = Append(@, [op |-> req.op, outcome |-> outcome,
                                    value |-> IF req.op = "read_coils"
                                              THEN hp.coil ELSE req.value])]
    /\ ClientFrame

\* The poll's read_coils returns: a result that is no error is stored in
\* _cached_data['is_on'] before the task waits again.
HpPollReceive ==
    /\ hp.back # <<>>
    /\ Head(hp.back).op = "read_coils"
    /\ hp' = [hp EXCEPT !.back = Tail(@), !.poll = "idle",
                        !.cached = IF Head(hp.back).outcome = "ok"
                                   THEN Head(hp.back).value ELSE @]
    /\ ClientFrame

\* Mutant of HpSetPowerReceive: the cache is left to the next poll.
HpSetPowerReceiveNoUpdate ==
    /\ hp.back # <<>>
    /\ Head(hp.back).op = "write_coil"
    /\ hp' = [hp EXCEPT !.back = Tail(@), !.set_power = "idle",
                        !.returned = IF Head(hp.back).outcome = "ok"
                                     THEN "True" ELSE "False"]
    /\ ClientFrame

\* set_power's write_coil returns: for a result that is no error the cache
\* is set to power_on and True is returned, otherwise False.
HpSetPowerReceive ==
    /\ hp.back # <<>>
    /\ Head(hp.back).op = "write_coil"
    /\ hp' = [hp EXCEPT !.back = Tail(@), !.set_power = "idle",
                        !.cached = IF Head(hp.back).outcome = "ok"
                                   THEN hp.power_on ELSE @,
                        !.returned = IF Head(hp.back).outcome = "ok"
                                     THEN "True" ELSE "False"]
    /\ ClientFrame

ClientNext ==
    \/ HpPollSend
    \/ \E power_on \in PowerValues : HpSetPowerSend(power_on)
    \/ \E outcome \in CoilOutcomes : HpDevice(outcome)
    \/ HpPollReceive
    \/ HpSetPowerReceive

-----------------------------------------------------------------------------
(* Specifications *)

Init ==
    /\ RetryInit /\ EnvInit /\ FsInit /\ PollInit /\ RdInit
    /\ ConsInit /\ KaInit /\ TaskInit
    /\ CurveInit /\ CtlInit /\ SetInit
    /\ ConvInit /\ SchedInit /\ ClientInit

\* One call after another of a retry wrapper.
SpecRetry == Init /\ [][RetryNext]_vars

\* The monitor daemon on its own, the device switched on and off meanwhile.
PollerNext ==
    \/ PollNext
    \/ DeviceSwitch

SpecPoller == Init /\ [][PollerNext]_vars

\* The monitor daemon as the writer of status.json, through its first
\* cycles, on a gateway that answers a cycle in full or not at all.
FullInput == RegResp(InputBank(dev), 0, INPUT_COUNT)
FullHolding == RegResp(HoldingBank(dev), 0, HOLDING_COUNT)

WriterNext ==
    \/ \E ok \in BOOLEAN : MConnect(ok)
    \/ \E res \in {FullInput, None} : MReadInput(res)
    \/ MReadHolding(FullHolding)
    \/ MReadCoil(CoilResp(dev.power))
    \/ MOpenTmp
    \/ MWriteTmp
    \/ MRename
    \/ MPollFailed
    \/ m_poll_count < CachePolls /\ MSleep

\* The monitor daemon on a gateway that fails as it likes during the first
\* cycles and from then on takes every connection and answers every read in
\* full.
GatewayHealthy == m_poll_count >= MaxPolls - 1

RecoverNext ==
    \/ \E ok \in BOOLEAN : MConnect(ok)
    \/ \E res \in (IF GatewayHealthy THEN {FullInput}
                   ELSE OpResults(RegResponses(InputBank(dev), 0, INPUT_COUNT),
                                  INPUT_COUNT)) :
          MReadInput(res)
    \/ \E res \in (IF GatewayHealthy THEN {FullHolding}
                   ELSE OpResults(RegResponses(HoldingBank(dev), 0, HOLDING_COUNT),
                                  HOLDING_COUNT)) :
          MReadHolding(res)
    \/ \E res \in (IF GatewayHealthy THEN {CoilResp(dev.power)}
                   ELSE OpResults(CoilResponses(dev), 1)) :
          MReadCoil(res)
    \/ MOpenTmp
    \/ MWriteTmp
    \/ MRename
    \/ MPollFailed
    \/ \E ok \in (IF GatewayHealthy THEN {TRUE} ELSE BOOLEAN) : MReconnect(ok)
    \/ MSleep
    \/ MCancel

\* The steps of the loop itself: the event loop runs the task whenever it
\* can go on.
LoopStep ==
    \/ \E res \in OpResults(RegResponses(InputBank(dev), 0, INPUT_COUNT), INPUT_COUNT) :
          MReadInput(res)
    \/ \E res \in OpResults(RegResponses(HoldingBank(dev), 0, HOLDING_COUNT),
                            HOLDING_COUNT) :
          MReadHolding(res)
    \/ \E res \in OpResults(CoilResponses(dev), 1) : MReadCoil(res)
    \/ MOpenTmp
    \/ MWriteTmp
    \/ MRename
    \/ MPollFailed
    \/ \E ok \in BOOLEAN : MReconnect(ok)
    \/ MSleep

SpecRecover == Init /\ [][RecoverNext]_vars /\ WF_vars(LoopStep)

\* The writer of status.json next to processes that read the file.
CacheNext ==
    \/ WriterNext
    \/ ReaderNext

SpecCache == Init /\ [][CacheNext]_vars

\* The writer of status.json next to the consumers of the file.
ConsumersNext ==
    \/ WriterNext
    \/ ConsNext

SpecConsumers == Init /\ [][ConsumersNext]_vars

\* The standalone keep-alive loop.
SpecKeepAlive == Init /\ [][KaNext]_vars

\* The tasks of the API service on their shared client.
SpecTransport == Init /\ [][TaskNext]_vars

\* The heating-curve policy: its calculation and its reloads.
SpecCurve == Init /\ [][CurveNext]_vars

\* The adaptive control loop.
SpecController == Init /\ [][CtlNext]_vars

\* The setters of the target temperature and the offset.
SpecSetters == Init /\ [][SetNext]_vars

\* The conversions between temperatures and register values.
SpecConvert == Init /\ [][ConvNext]_vars

\* The scheduler applying schedule entries to a thermostat a user operates.
SpecScheduler == Init /\ [][SchedNext]_vars

\* check_and_apply called at arbitrary moments.
SpecCheck == Init /\ [][CheckNext]_vars

\* The scheduler's run loop; the event loop runs the task whenever it can.
SpecRun == Init /\ [][RunNext]_vars /\ WF_vars(RunNext)

\* HeatPumpModbusClient: its poll and a caller of set_power on one connection.
SpecClient == Init /\ [][ClientNext]_vars

Next == PollerNext

Spec == Init /\ [][Next]_vars

-----------------------------------------------------------------------------
(* Claims about the retry wrappers (checked under SpecRetry) *)

Reqs(log) == SelectSeq(log, LAMBDA e : e.ev = "req")

\* A failed attempt: an error response, a timeout or an exception; for the
\* keep_alive wrapper also a response with another register count.
AttemptFailed(fn, resp, count) ==
    \/ resp.kind \in {"error", "timeout", "exception"}
    \/ fn = ReadWrapper /\ resp.kind = "ok" /\ resp.len # count

\* C2: a call of a retry wrapper issues the request at most 3 times, issues
\* no attempt after an accepted response and returns that response, returns
\* None exactly when all 3 attempts failed, and never raises.
C2_RetryBounded ==
    LET reqs == Reqs(w_log)
        n == Len(reqs)
    IN  /\ w_pc # "raised"
        /\ n <= 3
        /\ \A i \in 1..(n - 1) : AttemptFailed(w_fn, reqs[i].resp, w_count)
        /\ w_pc = "returned" =>
            /\ n >= 1
            /\ (w_result = None) <=>
                  (n = 3 /\ \A i \in 1..n : AttemptFailed(w_fn, reqs[i].resp, w_count))
            /\ w_result # None =>
                  /\ w_result = reqs[n].resp
                  /\ ~AttemptFailed(w_fn, reqs[n].resp, w_count)

\* C2 witness: a call that saw an exception and a timeout and returned None
\* after its third attempt.
C2_Witness ==
    /\ w_pc = "returned"
    /\ w_result = None
    /\ Len(Reqs(w_log)) = 3
    /\ \E i \in 1..Len(w_log) : w_log[i] = ReqEvent(ExceptionResp)
    /\ \E i \in 1..Len(w_log) : w_log[i] = ReqEvent(TimeoutResp)

\* C3: a read of `count` registers (count > 1) never hands its caller a
\* response that carries another number of registers: the result is None or
\* has exactly `count` values.
C3_ShortReadFails ==
    (w_pc = "returned" /\ w_count > 1) =>
        (w_result = None \/ w_result.len = w_count)

\* The last thing the call did was a request that was answered, without
\* error, with fewer registers than asked for.
ShortAnswered ==
    /\ w_log # <<>>
    /\ w_log[Len(w_log)].ev = "req"
    /\ w_log[Len(w_log)].resp.kind = "ok"
    /\ w_log[Len(w_log)].resp.len < w_count

\* C25: a response without error that carries fewer registers than requested
\* is handled like a transport error: it uses up one attempt, the wrapper
\* goes into its backoff while attempts remain and returns None after the
\* last one.
C25_ShortReadRetried ==
    ShortAnswered =>
        IF Len(Reqs(w_log)) < MaxAttempts(w_fn)
        THEN w_pc = "backoff"
        ELSE w_pc = "returned" /\ w_result = None

\* keep_alive's wrapper is in its backoff after a short response.
C25_Witness ==
    /\ ShortAnswered
    /\ w_fn = ReadWrapper
    /\ w_pc = "backoff"

\* C26: within one call, the first attempt is issued without a sleep, every
\* later attempt i follows exactly one sleep of base_delay * i (2 s before
\* the second, 4 s before the third), and no sleep follows the last attempt.
C26_LinearBackoff ==
    /\ \A i \in 1..Len(w_log) :
          IF i % 2 = 1 THEN w_log[i].ev = "req"
          ELSE w_log[i] = SleepEvent(RETRY_DELAY * (i \div 2))
    /\ w_pc = "returned" => Len(w_log) % 2 = 1
    /\ w_pc = "request" => Len(w_log) % 2 = 0
    /\ w_pc = "backoff" => Len(w_log) % 2 = 1

\* A call that made all three attempts: request, 2 s, request, 4 s, request.
C26_Witness ==
    /\ w_pc = "returned"
    /\ Len(w_log) = 5
    /\ w_log[2] = SleepEvent(2)
    /\ w_log[4] = SleepEvent(4)

-----------------------------------------------------------------------------
(* Claims about the shared client of the API service (SpecTransport) *)

\* A task has a logical operation in flight from its first request to the
\* return of the wrapper, the backoff sleeps between the attempts included.
InFlight(t) == tk[t].pc \in {"await", "backoff"}

\* C1: at any instant at most one logical transport operation, with its
\* retries and backoff sleeps, is in flight on the client.
C1_OneInFlight == Cardinality({t \in Tasks : InFlight(t)}) <= 1

-----------------------------------------------------------------------------
(* Claims about the polling loops (SpecPoller, SpecKeepAlive) *)

\* monitoring_loop leaves only before its first cycle, when the first
\* connect fails.
MonitorLoopNeverExits == m_pc = "exited" => m_poll_count = 0

\* C4: once started, a polling loop never ends on its own: it has exited
\* only if it never began a cycle; every other end is a cancel or an
\* interrupt.
C4_LoopNeverExits ==
    /\ MonitorLoopNeverExits
    /\ k_pc = "exited" => k_cycle = 0

\* C5: a reconnect is attempted when and only when a failed cycle brings the
\* consecutive-failure counter to the threshold 5 or leaves it there: no
\* reconnect within the first four failed cycles after a successful poll,
\* exactly one by the end of the fifth.
C5_ReconnectAtThreshold ==
    /\ [](/\ g_run < 5 => g_recon = 0
          /\ g_run = 5 => g_recon = 1)
    /\ [][(m_pc = "failed" /\ m_pc' # "failed") =>
            /\ (m_pc' = "reconnect") <=> (m_errors' >= 5)
            /\ (g_recon' = g_recon + 1) <=> (m_pc' = "reconnect")]_vars
    /\ [][g_recon' > g_recon => (m_pc = "failed" /\ m_pc' = "reconnect")]_vars

\* C5 witness: the fifth failed cycle in a row after a published poll, with
\* its one reconnect about to be tried.
C5_Witness ==
    /\ g_last # NoData
    /\ g_run = 5
    /\ g_recon = 1
    /\ m_errors = 5
    /\ m_pc = "reconnect"

\* C27: the consecutive-failure counter is the number of failed cycles since
\* the last successful poll or successful reconnect: only these three events
\* change it, a failed cycle by exactly +1, the other two to 0, and a
\* successful poll publishes its snapshot in the cycle that reset it.
C27_CounterCountsFailures ==
    /\ [](m_errors <= g_run)
    /\ [](g_recon = 0 => m_errors = g_run)
    /\ [][(m_pc = "failed" /\ m_pc' # "failed") => m_errors' = m_errors + 1]_vars
    /\ [][(m_pc = "read_coil" /\ m_pc' = "open_tmp") => m_errors' = 0]_vars
    /\ [][m_errors' # m_errors =>
            \/ m_pc = "failed" /\ m_errors' = m_errors + 1
            \/ m_pc = "read_coil" /\ m_pc' = "open_tmp" /\ m_errors' = 0
            \/ m_pc = "reconnect" /\ m_client' = "conn" /\ m_errors' = 0]_vars
    /\ [](m_pc \in {"open_tmp", "write_tmp", "rename"} => m_errors = 0)
    /\ []((m_pc = "sleep" /\ m_status # None /\ m_status # NoResult) =>
              (m_errors = 0 /\ g_last = m_status))

\* Five failed cycles, a reconnect that succeeded, one more failed cycle:
\* six failed cycles since the last successful poll, one since the reconnect.
C27_Witness ==
    /\ m_pc = "sleep"
    /\ m_errors = 1
    /\ g_run = 6
    /\ m_client = "conn"

\* The loop has published the snapshot of the current cycle.
PublishedFresh ==
    /\ m_pc = "sleep"
    /\ m_client = "conn"
    /\ m_errors = 0
    /\ g_last # NoData
    /\ g_last = m_status
    /\ g_last.timestamp = now
    /\ StatusExists
    /\ StatusFile.data = g_last

\* C28: a failed reconnect leaves the failure counter as it is and the next
\* failed cycle tries the reconnect again; once the gateway takes connections
\* and answers reads, the loop comes back to polling and publishes a fresh
\* snapshot.
C28_ReconnectRetriedUntilRecovered ==
    /\ [][(m_pc = "reconnect" /\ m_pc' = "sleep" /\ m_client' = "none") =>
              m_errors' = m_errors]_vars
    /\ [][(m_pc = "failed" /\ m_client = "none" /\ m_pc' # "failed") =>
              m_pc' = "reconnect"]_vars
    /\ (m_client = "none" /\ m_pc \in LoopStates) ~>
           (PublishedFresh \/ m_pc = "stopped")

\* A reconnect has failed, and the next failed cycle, the counter at 6, is
\* about to try again.
C28_Witness ==
    /\ m_pc = "reconnect"
    /\ m_client = "none"
    /\ m_errors = 6
    /\ g_recon = 2

\* The cycle's read_all_registers returned None.
CycleFailed == m_status = None

\* C6: in every cycle whose read failed the status file has been touched in
\* that cycle: it exists and carries the time of the cycle, also when the
\* cycle's reconnect failed.
C6_FailedCycleTouches ==
    (CycleFailed /\ m_pc \in {"reconnect", "sleep", "stopped"}) =>
        (StatusExists /\ StatusFile.mtime = now)

\* C6 witness: the end of a later failed cycle whose reconnect failed as the
\* one before it did, the status file touched at the cycle's time.
C6_Witness ==
    /\ CycleFailed
    /\ m_pc = "sleep"
    /\ m_client = "none"
    /\ g_recon >= 2
    /\ now > 0
    /\ StatusExists
    /\ StatusFile.mtime = now

\* What a reader of status.json gets as the snapshot: the content of a
\* complete file, nothing from a missing or empty one.
CachedSnapshot ==
    IF StatusExists /\ Complete(StatusFile) THEN StatusFile.data ELSE NoData

\* C7: a failed cycle leaves the snapshot in the status file as it is, every
\* field and the timestamp: it stays the one of the last published poll.
C7_FailedCycleKeepsSnapshot ==
    /\ [](CycleFailed => CachedSnapshot = g_last)
    /\ [][(CycleFailed \/ CycleFailed') => CachedSnapshot' = CachedSnapshot]_vars

\* C7 witness: a failed cycle has touched the file and the snapshot in it
\* is still the older one of the last published poll.
C7_Witness ==
    /\ CycleFailed
    /\ m_pc = "sleep"
    /\ CachedSnapshot # NoData
    /\ CachedSnapshot = g_last
    /\ CachedSnapshot.timestamp < now
    /\ StatusFile.mtime = now

\* C8: a snapshot is published only by a cycle all of whose three reads
\* (input registers, holding registers, power coil) succeeded.
C8_PublishedFromFullCycle ==
    m_pc \in {"open_tmp", "write_tmp", "rename"} =>
        /\ Len(g_reads) = 3
        /\ \A i \in 1..Len(g_reads) : g_reads[i].ok

-----------------------------------------------------------------------------
(* Claims about the status file and its readers (SpecCache, SpecConsumers) *)

\* C9: a read of the status file next to a running publish returns a
\* complete snapshot, the one last published when the reader opened the
\* file, never a partly written one. (Before the first publish there is no
\* snapshot: the reader finds no file, or the empty file of a failed cycle.)
C9_ReadsComplete ==
    \A r \in Readers :
        (rd[r].pc = "done" /\ rd[r].got # FileNotFound) =>
            IF rd[r].at = NoData
            THEN rd[r].got = [data |-> NoData, bytes |-> 0]
            ELSE rd[r].got = [data |-> rd[r].at, bytes |-> Chunks]

\* C9 witness: a reader read the complete previous snapshot while the
\* writer was in the middle of writing the next one.
C9_Witness ==
    \E r \in Readers :
        /\ rd[r].pc = "done"
        /\ rd[r].during = "write_tmp"
        /\ rd[r].at # NoData
        /\ rd[r].got = [data |-> rd[r].at, bytes |-> Chunks]
        /\ m_pc = "write_tmp"
        /\ fs_path.tmp # 0
        /\ fs_ino[fs_path.tmp].bytes \in 1..(Chunks - 1)

\* C10: no consumer of the status file uses the values of a snapshot that
\* is more than 30 s old.
C10_StaleNotUsed == answer.used # NoData => answer.age <= 30

-----------------------------------------------------------------------------
(* The heating-curve policy *)

Cutoff == hc_config.settings.outdoor_cutoff_temp
Restart == hc_config.settings.outdoor_restart_temp

\* The last call found the heat pump off and the outdoor temperature strictly
\* between the restart and the cutoff temperature.
OffInBand ==
    /\ hy.called
    /\ ~hy.was_on
    /\ Restart < hy.outdoor
    /\ hy.outdoor < Cutoff

\* C11: with the heat pump off and the outdoor temperature strictly between
\* outdoor_restart_temp and outdoor_cutoff_temp, the calculation answers
\* "stay off": no such call leads to the heat pump being on.
C11_StaysOffInBand == OffInBand => (hy.result = None /\ ~hy.on)

\* C12: a heat pump that is off is decided to be on only at an outdoor
\* temperature at or below outdoor_restart_temp, and then with a flow
\* temperature within [min_flow_temp, max_flow_temp].
C12_OnOnlyAtRestart ==
    (hy.called /\ ~hy.was_on /\ hy.on) =>
        /\ hy.outdoor <= Restart
        /\ hy.result.kind = "float"
        /\ hc_config.settings.min_flow_temp <= hy.result.v
        /\ hy.result.v <= hc_config.settings.max_flow_temp

\* Some curve whose range holds the target has a breakpoint for the outdoor
\* temperature.
Covered(outdoor_temp, target_room_temp) ==
    \E i \in DOMAIN CurveNames :
        /\ Matches(hc_config, CurveNames[i], target_room_temp)
        /\ \E k \in DOMAIN hc_config.heating_curves[CurveNames[i]].curve :
               LET point == hc_config.heating_curves[CurveNames[i]].curve[k]
               IN  point.outdoor_min <= outdoor_temp /\ outdoor_temp < point.outdoor_max

Unusable(file) ==
    IF file.kind = "json" THEN ~ValidConfig(file.config) ELSE TRUE

\* C19: a reload that finds the configuration file missing, unparsable or
\* invalid leaves the policy that was active before it in place.
C19_BadFileKeepsPolicy ==
    (hy.reload # NoResult /\ Unusable(hy.reload.file)) => hc_config = hy.reload.old

-----------------------------------------------------------------------------
(* The adaptive control loop *)

\* The tick has read a usable status.json, so it came to its calculation.
TickDone == ac.status.kind = "status"

\* The flow temperature the policy has for the tick's temperatures.
Computed == calculate_flow_temp(ac.used.config, <<ac.outdoor.v, ac.target>>)

\* The policy's flow temperature is at least the threshold away from the
\* setpoint status.json reports.
AboveThreshold ==
    /\ TickDone
    /\ Computed.kind = "float"
    /\ Abs(ac.status.target_temp - Computed.v) >= ac.used.threshold

BelowThreshold ==
    /\ TickDone
    /\ Computed.kind = "float"
    /\ Abs(ac.status.target_temp - Computed.v) < ac.used.threshold

C17_EndsOnlyByCancel == ac.pc = "stopped" => ac.cancelled

\* A tick has failed and the loop has started the next one.
C17_Witness ==
    /\ ac.errors >= 1
    /\ ac.ticks >= 2
    /\ ac.pc = "get_outdoor"
    /\ ~ac.cancelled

\* C20: a tick that has to switch the heat pump on and change the setpoint
\* issues the power-on write first and the setpoint write after it.
C20_PowerOnBeforeSetpoint ==
    (AboveThreshold /\ ~ac.disabled /\ ac.status.power_state = "OFF") =>
        /\ Len(ac.writes) = 2
        /\ ac.writes[1].op = "set_power" /\ ac.writes[1].value = TRUE
        /\ ac.writes[2].op = "set_target_temperature"
        /\ ac.writes[2].value = Computed.v

-----------------------------------------------------------------------------
(* The setters *)

\* The last setter call was made with a value outside the range of its
\* register: [20, 60] degrees for the target temperature, [-5, 5] Kelvin for
\* the offset.
OutOfRange ==
    \/ sw.op = "set_target_temperature" /\ (sw.value < 200 \/ sw.value > 600)
    \/ sw.op = "set_auto_mode_offset" /\ (sw.value < -5 \/ sw.value > 5)

\* C18: a call of a target-temperature setter with a value outside [20, 60],
\* or of the offset setter with a value outside [-5, 5], answers False
\* without a request to the gateway, and the registers stay as they were.
C18_OutOfRangeNoRequest ==
    OutOfRange =>
        /\ sw.pc = "idle"
        /\ sw.requests = 0
        /\ sw.result = FALSE
        /\ dev = sw.before

\* The setters of lg_r290_modbus have refused a value out of range.
C18_Witness ==
    /\ OutOfRange
    /\ sw.impl = "lg_r290_modbus"
    /\ sw.pc = "idle"
    /\ sw.requests = 0
    /\ sw.result = FALSE

-----------------------------------------------------------------------------
(* Temperatures and register values *)

\* C22: a temperature with one decimal place that is encoded into the
\* register and decoded again comes back as it was, and every decoder that
\* builds a status reads a raw value above 32767 as the negative
\* two's-complement value (65486 as -5.0).
C22_RoundTripAndSign ==
    /\ (cv.op = "roundtrip" /\ cv.input % 10 = 0) => cv.out * 10 = cv.input
    /\ (cv.op = "decode" /\ cv.raw > 32767) => cv.out = cv.raw - 65536

\* read_all_registers has decoded 65486 as -5.0.
C22_Witness ==
    /\ cv.op = "decode"
    /\ cv.impl = "read_all_registers"
    /\ cv.raw = 65486
    /\ cv.out = -50

-----------------------------------------------------------------------------
(* service/scheduler.py *)

UpdateRequests == {"POST thermostat/config", "POST auto-mode-offset"}

\* C24: apply_schedule_action sends update requests, and so changes the
\* thermostat's target and the offset, only in a call that has read the mode
\* AUTO or ON; a call that has read ECO or OFF sends nothing but the read of
\* the configuration and returns False.
C24_ScheduleOnlyInAutoOrOn ==
    /\ [](\A i \in 1..Len(sc.requests) :
            sc.requests[i] \in UpdateRequests => sc.mode \in {"AUTO", "ON"})
    /\ []((sc.pc = "done" /\ sc.mode \in {"ECO", "OFF"}) =>
            /\ sc.requests = <<"GET thermostat/config">>
            /\ sc.result = Bool(FALSE))
    /\ [][(sc'.thermo_target # sc.thermo_target \/ sc'.offset # sc.offset) =>
            sc.mode \in {"AUTO", "ON"}]_vars
    /\ [][(sc.pc = "get" /\ sc.thermo_mode \in {"ECO", "OFF"}) =>
            /\ sc'.thermo_mode = sc.thermo_mode \/ sc'.pc = "get"
            /\ sc'.thermo_target = sc.thermo_target
            /\ sc'.offset = sc.offset]_vars

\* A call found the thermostat in ECO and returned False after the one read,
\* leaving target and offset as a schedule applied before had set them.
C24_Witness ==
    /\ sc.pc = "done"
    /\ sc.mode = "ECO"
    /\ sc.thermo_mode = "ECO"
    /\ sc.result = Bool(FALSE)
    /\ sc.thermo_target = 220
    /\ sc.offset = 2
    /\ sc.action.target_temp = 200

-----------------------------------------------------------------------------
(* The failure signal of the setters *)

\* C23: what a caller of an exposed operation gets back tells the cause of a
\* failure: two failed calls of the same operation that failed for different
\* causes (transport unavailable, input rejected by validation, error
\* response of the device) never hand the caller the same result.
C23_SignalTellsCause ==
    (/\ sw.cause # "none"
     /\ sw.prev.impl = sw.impl
     /\ sw.prev.op = sw.op
     /\ sw.prev.signal = Signal(sw)) => sw.prev.cause = sw.cause

\* set_target_temperature of lg_r290_modbus has returned False for a value
\* out of range and then False again after the device answered the last
\* attempt of a write with an error response.
C23_Witness ==
    /\ sw.impl = "lg_r290_modbus"
    /\ sw.op = "set_target_temperature"
    /\ sw.prev.impl = sw.impl
    /\ sw.prev.op = sw.op
    /\ sw.prev.cause = "validation"
    /\ sw.cause = "device"
    /\ sw.result = FALSE
    /\ sw.requests = MAX_RETRIES

-----------------------------------------------------------------------------
(* Shutdown of the monitoring loop *)

-----------------------------------------------------------------------------
(* Ticks without a flow temperature *)

\* The tick's outdoor temperature lies below the cutoff, and the
\* configuration of the tick has no curve whose range holds the target.
NoCurve ==
    /\ TickDone
    /\ ~CutOff(ac.used.config, ac.outdoor.v)
    /\ select_heating_curve(ac.used.config, ac.target) = None

\* The tick's outdoor temperature lies below the cutoff, a curve is selected
\* and none of its breakpoint intervals holds the outdoor temperature.
NoBreakpoint ==
    /\ TickDone
    /\ ~CutOff(ac.used.config, ac.outdoor.v)
    /\ select_heating_curve(ac.used.config, ac.target) # None
    /\ find_flow_temp_from_curve(
           select_heating_curve(ac.used.config, ac.target).curve, ac.outdoor.v) = None

-----------------------------------------------------------------------------
(* The source of the outdoor temperature *)

\* The tick has asked for the outdoor temperature and not gone on yet.
OutdoorRead == ac.pc = "get_target" /\ ac.sources # NoSources

\* The device's outdoor temperature as the fallback takes it from
\* status.json: None for a value that is absent or 0.0.
FromCache ==
    IF ac.sources.cached.kind = "float" /\ ac.sources.cached.v # 0
    THEN ac.sources.cached ELSE None

-----------------------------------------------------------------------------
(* The flow temperature of the policy *)

\* C31: a flow temperature returned by calculate_flow_temp is a whole number
\* of degrees and lies within [min_flow_temp, max_flow_temp] of the active
\* configuration, whatever configuration has been loaded.
C31_WholeAndWithinLimits ==
    (hy.called /\ hy.result.kind = "float") =>
        /\ hy.result.v % 10 = 0
        /\ hc_config.settings.min_flow_temp <= hy.result.v
        /\ hy.result.v <= hc_config.settings.max_flow_temp

\* With a lower limit of 35.4 degrees the eco curve's 33 degrees at 15.0
\* outside came back as 35.0 degrees.
C31_Witness ==
    /\ hy.called
    /\ hc_config = FractionalConfig
    /\ hy.outdoor = 150
    /\ hy.target = 200
    /\ hy.result = Float(350)

-----------------------------------------------------------------------------
(* The lookups of the policy *)

\* The last call selected a curve and looked the outdoor temperature up.
LookedUp == hy.called /\ hy.lookups # NoLookup /\ hy.lookups.curve # None

\* The breakpoint `k` of the selected curve holds the outdoor temperature of
\* the last call in [outdoor_min, outdoor_max).
Inside(k) ==
    /\ hy.lookups.curve.curve[k].outdoor_min <= hy.outdoor
    /\ hy.outdoor < hy.lookups.curve.curve[k].outdoor_max

\* C32: the breakpoint lookup returns the flow temperature of the first
\* breakpoint in list order whose interval [outdoor_min, outdoor_max) holds
\* the outdoor temperature, and no match when no interval holds it.
C32_FirstBreakpointHalfOpen ==
    LookedUp =>
        IF \E k \in DOMAIN hy.lookups.curve.curve : Inside(k)
        THEN \E k \in DOMAIN hy.lookups.curve.curve :
                 /\ Inside(k)
                 /\ \A j \in 1..(k - 1) : ~Inside(j)
                 /\ hy.lookups.flow = Float(hy.lookups.curve.curve[k].flow_temp)
        ELSE hy.lookups.flow = None

\* At -2.0 degrees outside two breakpoints of the eco curve overlap, and the
\* lookup gave the 43 degrees of the first.
C32_Witness ==
    /\ LookedUp
    /\ hc_config = OverlapConfig
    /\ hy.outdoor = -20
    /\ Inside(1) /\ Inside(2)
    /\ hy.lookups.flow = Float(430)

\* The range of the curve `name` of the active configuration holds the
\* target of the last call, both ends included.
InRange(name) ==
    /\ hc_config.heating_curves[name].target_temp_range[1] <= hy.target
    /\ hy.target <= hc_config.heating_curves[name].target_temp_range[2]

\* C33: curve selection returns the first curve in configuration order whose
\* closed range holds the target room temperature, and none when no range
\* holds it; in the built-in policy 21.0 selects eco and 23.0 comfort.
C33_FirstCurveClosedRange ==
    (hy.called /\ hy.lookups # NoLookup) =>
        /\ IF \E i \in DOMAIN CurveNames : InRange(CurveNames[i])
           THEN \E i \in DOMAIN CurveNames :
                    /\ InRange(CurveNames[i])
                    /\ \A j \in 1..(i - 1) : ~InRange(CurveNames[j])
                    /\ hy.lookups.curve = hc_config.heating_curves[CurveNames[i]]
           ELSE hy.lookups.curve = None
        /\ (hc_config = DefaultConfig /\ hy.target = 210) =>
               hy.lookups.curve = DefaultCurves.eco
        /\ (hc_config = DefaultConfig /\ hy.target = 230) =>
               hy.lookups.curve = DefaultCurves.comfort

\* Under the built-in policy a target of 21.0 degrees, the end of the eco
\* range and the start of the comfort range, selected the eco curve.
C33_Witness ==
    /\ hy.called
    /\ hc_config = DefaultConfig
    /\ hy.target = 210
    /\ hy.outdoor = 50
    /\ hy.lookups.curve = DefaultCurves.eco
    /\ hy.lookups.flow = Float(380)

-----------------------------------------------------------------------------
(* The active configuration *)

\* C34: after any sequence of loads and reloads the active configuration
\* has the three named curves and all required settings, and its restart
\* temperature is not above its cutoff temperature.
C34_ActivePolicyConsistent ==
    /\ ValidConfig(hc_config)
    /\ hc_config.settings.outdoor_restart_temp <= hc_config.settings.outdoor_cutoff_temp

\* A reload has made a file active whose restart temperature lies above its
\* cutoff temperature.
C34_Witness ==
    /\ hy.reload # NoResult
    /\ hy.reload.file = JsonFile(InvertedConfig)
    /\ hc_config = InvertedConfig

-----------------------------------------------------------------------------
(* The auto mode offset *)

\* C35: the auto_mode_offset of a published snapshot is a signed integer in
\* [-5, +5], and an offset in that range handed to set_auto_mode_offset is
\* written and read back in the next snapshot as the same signed value.
C35_OffsetSigned ==
    /\ cv.op \in {"offset_published", "offset_roundtrip"} =>
           (-5 <= cv.out /\ cv.out <= 5)
    /\ cv.op \in {"offset_failed", "offset_roundtrip"} =>
           (cv.op = "offset_roundtrip" /\ cv.out = cv.input)

\* An offset of -2 K went out as its 16-bit image and the next snapshot has
\* 65534 for it.
C35_Witness ==
    /\ cv.op = "offset_roundtrip"
    /\ cv.input = -2
    /\ cv.raw = 65534
    /\ cv.out = 65534

-----------------------------------------------------------------------------
(* The content of the status file *)

\* C36: whenever the status file exists it holds a complete snapshot with a
\* timestamp; no step of the poller creates or leaves a status file without
\* one.
C36_StatusFileHoldsSnapshot ==
    StatusExists =>
        /\ Complete(StatusFile)
        /\ StatusFile.data.timestamp <= now

\* The first cycle failed before anything was published, and the touch of
\* the failed cycle has created an empty status file.
C36_Witness ==
    /\ CycleFailed
    /\ g_last = NoData
    /\ StatusExists
    /\ StatusFile.data = NoData
    /\ StatusFile.bytes = 0
    /\ StatusFile.mtime = now

-----------------------------------------------------------------------------
(* The cached power state of HeatPumpModbusClient *)

\* C37: from the moment set_power(v) has returned True until the next
\* set_power call sends its write, _cached_data['is_on'] equals v, whatever
\* a poll that overlaps the write has read.
C37_CacheKeepsWrittenPower == hp.returned = "True" => hp.cached = hp.power_on

\* set_power("ON") has returned True, the cache has ON, and a poll whose
\* read_coils went out while the write was in flight is still waiting for
\* its answer.
C37_Witness ==
    /\ hp.returned = "True"
    /\ hp.power_on = "ON"
    /\ hp.cached = "ON"
    /\ hp.coil = "ON"
    /\ hp.poll = "read_coils"
    /\ hp.back = <<[op |-> "read_coils", outcome |-> "ok", value |-> "ON"]>>

-----------------------------------------------------------------------------
\* C38: a matching schedule period is applied at most once per clock minute,
\* and a call of check_and_apply within the same (hour, minute) as the
\* previous check performs no lookup and applies nothing.
C38_OncePerMinute ==
    /\ \A i, j \in 1..Len(sc.triggered) :
           sc.triggered[i] = sc.triggered[j] => i = j
    /\ sc.call.minute = sc.call.before => ~sc.call.lookup

\* A second call within the minute of the previous one has returned at once.
C38_Witness ==
    /\ sc.call.minute = 1
    /\ sc.call.before = 1
    /\ ~sc.call.lookup
    /\ sc.pc = "done"
    /\ sc.triggered = <<1>>

\* C39: with the run loop running, every period whose HH:MM has come and gone
\* between two checks of the loop was applied in its minute: successive
\* checks never skip a clock minute.
C39_NoMinuteSkipped ==
    /\ \A i \in 1..(Len(sc.checked) - 1) :
           sc.checked[i + 1] <= sc.checked[i] + 1
    /\ \A k \in 1..Len(Periods) :
           (/\ sc.checked # <<>>
            /\ sc.checked[1] < Periods[k].time
            /\ Periods[k].time < sc.checked[Len(sc.checked)])
           => \E i \in 1..Len(sc.triggered) :
                  sc.triggered[i] = Periods[k].time

\* The loop has checked in three successive minutes and applied both periods.
C39_Witness ==
    /\ sc.checked = <<0, 1, 2>>
    /\ sc.triggered = <<1, 2>>
    /\ sc.pc = "sleep"

\* The reads of one cycle: at most three, each after the inter-request pause,
\* in the order `order`, and none after a read that failed.
ReadsInOrder(reads, order) ==
    /\ Len(reads) <= Len(order)
    /\ \A i \in 1..Len(reads) :
           /\ reads[i].reg = order[i]
           /\ reads[i].pause = INTER_REQUEST_DELAY
           /\ i < Len(reads) => reads[i].ok

\* C40: within one poll cycle the reads are issued in the order input
\* registers, holding registers, power coil, each preceded by the fixed
\* inter-request pause, and none follows a failed read of the input or the
\* holding registers; of read_status the third read is its second read of
\* holding registers.
C40_ReadsInFixedOrder ==
    /\ ReadsInOrder(g_reads, <<"input", "holding", "coil">>)
    /\ ReadsInOrder(k_reads, <<"read_input", "read_holding", "read_energy">>)

\* A cycle of read_status ended by its failed read of the holding registers.
C40_Witness ==
    /\ Len(k_reads) = 2
    /\ k_reads[1].ok
    /\ ~k_reads[2].ok
    /\ k_pc = "sleep"

====
